---- MODULE Spec2Model ----
(***************************************************************************)
(* Heat-flow simulation core: the grid physics engine (GridPhysicsEngine), *)
(* its Peltier snapshot, the interference scorer (InterferenceCalculator)  *)
(* and the parts of the App driver that call them.                         *)
(*                                                                         *)
(* Number representation.  The program computes in IEEE doubles; the model *)
(* computes in exact integers at fixed resolutions:                        *)
(*   - a Fahrenheit temperature is an integer count of 1/TempScale F;      *)
(*   - a Celsius temperature is an integer count of 5/(9*TempScale) C, so  *)
(*     that (f - 32) * 5 / 9 is exact: it is f minus 32 degrees;           *)
(*   - lengths are pixels; radii that carry a fractional layer thickness   *)
(*     are counted in tenths of a pixel;                                   *)
(*   - sqrt appears only in comparisons dist <= r, modelled exactly as     *)
(*     r >= 0 /\ dist^2 <= r^2, and in the scorer's sampling points, where *)
(*     it is taken to 1/1000 pixel.                                        *)
(***************************************************************************)
EXTENDS Integers, Sequences, FiniteSets, TLC

VARIABLES
  grid,          \* GridPhysicsEngine.grid : [0..height-1 -> [0..width-1 -> GridCell]]
  width,         \* GridPhysicsEngine.width
  height,        \* GridPhysicsEngine.height
  time,          \* GridPhysicsEngine.time, in 1/100 s
  sampleCells,   \* GridPhysicsEngine.sampleCells : id -> sequence of [x, y]
  engSamples,    \* GridPhysicsEngine.samples (Peltier snapshot only)
  engine,        \* which GridPhysicsEngine was constructed: "grid" or "peltier"
  pc,            \* "idle", or "stepping" while step()'s update loop runs
  todo,          \* the interior cells the update loop has not visited yet
  container,     \* the caller's Container (the one last passed to initialize)
  samples,       \* the caller's Sample list
  app,           \* the App component: isRunning, timeRef, elapsedTime, gridData, ...
  canvas,        \* the caller's render dimensions [w, h]
  initGrid,      \* history: the grid as the last initialize() left it
  prev,          \* history: the grid as it was when the last step() began
  steps,         \* history: step() calls since the last initialize()
  inits,         \* history: initialize() calls so far
  ret            \* the value returned by the last read operation

engineVars == <<grid, width, height, time, sampleCells, engSamples, engine, pc, todo>>
callerVars == <<container, samples, app, canvas>>
historyVars == <<initGrid, prev, steps, inits>>
vars == <<grid, width, height, time, sampleCells, engSamples, engine, pc, todo,
          container, samples, app, canvas, initGrid, prev, steps, inits, ret>>

-----------------------------------------------------------------------------
(* Bounds of the model *)

MaxSteps == 2
MaxInits == 3

-----------------------------------------------------------------------------
(* Program constants *)

TempScale == 20
PIXEL_SIZE_MM == 4
TIME_STEP == 5
PIXELS_PER_INCH == 2
DOWNSAMPLE == 4
PELTIER_PIXEL_SIZE_MM == 2

\* an optional number (water_temperature?, target_temperature?) is <<>> when
\* undefined and <<v>> when it holds v
Undefined == <<>>
Some(v) == <<v>>
ValueOf(o) == o[1]

\* the double Infinity (a division by zero)
Infinity == 2147483647

-----------------------------------------------------------------------------
(* Arithmetic helpers *)

Abs(a) == IF a >= 0 THEN a ELSE -a
Min(a, b) == IF a <= b THEN a ELSE b
Max(a, b) == IF a >= b THEN a ELSE b

\* Math.ceil(a / b) for a >= 0, b > 0
Ceil(a, b) == (a + b - 1) \div b

\* a / b rounded toward zero: the fixed-point image of a double division
Quot(a, b) == IF a >= 0 THEN a \div b ELSE -((-a) \div b)

\* the sum of f over the set S
RECURSIVE SumOver(_, _)
SumOver(f, S) ==
  IF S = {} THEN 0
  ELSE LET k == CHOOSE k \in S : TRUE IN f[k] + SumOver(f, S \ {k})

\* Temperature literal: degrees Fahrenheit to the Fahrenheit fixed-point count
DegF(d) == d * TempScale

\* f2c: (f - 32) * 5 / 9
f2c(f) == f - 32 * TempScale

\* c2f: c * 9 / 5 + 32
c2f(c) == c + 32 * TempScale

-----------------------------------------------------------------------------
(* Material catalog.  thermal_conductivity in mW/(m K), specific_heat in   *)
(* J/(kg K), density in 0.1 kg/m^3.                                        *)

Mat(n, k, cp, rho) ==
  [name |-> n, thermal_conductivity |-> k, specific_heat |-> cp, density |-> rho]

getMaterials ==
  [m \in {"Aluminum", "Plastic (PVC)", "Water", "Phenolic Foam", "Air",
          "Steel", "Copper"} |->
     CASE m = "Aluminum"      -> Mat(m, 205000, 900, 27000)
       [] m = "Plastic (PVC)" -> Mat(m, 190, 1000, 14000)
       [] m = "Water"         -> Mat(m, 600, 4186, 10000)
       [] m = "Phenolic Foam" -> Mat(m, 30, 1400, 500)
       [] m = "Air"           -> Mat(m, 26, 1005, 12)
       [] m = "Steel"         -> Mat(m, 50000, 500, 78500)
       [] m = "Copper"        -> Mat(m, 385000, 385, 89600)]

-----------------------------------------------------------------------------
(* Geometry of initialize()                                                *)

\* variant: a point at exactly the radius is outside
DistLt(d2, r10) == r10 >= 0 /\ 100 * d2 < r10 * r10

\* dist <= r for dist = sqrt(d2), r10 the radius in tenths of a pixel
DistLe(d2, r10) == r10 >= 0 /\ 100 * d2 <= r10 * r10

\* insideContainer for the world point (worldX, worldY)
InsideContainer(c, worldX, worldY, canvasWidth, canvasHeight) ==
  IF c.shape = "circle"
    THEN \* dist <= r, r = width / 2, centre (canvasWidth / 2, canvasHeight / 2)
         /\ c.width >= 0
         /\ (2 * worldX - canvasWidth) * (2 * worldX - canvasWidth)
              + (2 * worldY - canvasHeight) * (2 * worldY - canvasHeight)
            <= c.width * c.width
    ELSE /\ 2 * worldX >= canvasWidth - c.width
         /\ 2 * worldX <= canvasWidth + c.width
         /\ 2 * worldY >= canvasHeight - c.height
         /\ 2 * worldY <= canvasHeight + c.height

\* effectiveDensity = massKg / volumeM3 of the core, in 0.1 kg/m^3.
\* massKg = lbs * 0.453592; volumeM3 = PI * (coreRadius / PPI)^2 * heightIn
\* / 1728 * 0.0283168, i.e. density = lbs * 27680 / (PI * rIn^2 * heightIn)
\* with PI taken as 355/113.  A zero volume gives Infinity.
EffectiveDensity(s, coreRadius10) ==
  LET heightIn == IF s.size = "2x4" THEN 4 ELSE 8
      r2h      == coreRadius10 * coreRadius10 * heightIn
  IN IF r2h = 0 THEN Infinity
     ELSE (((s.water_mass_lbs * 27680 * 113) \div 355)
             * 100 * PIXELS_PER_INCH * PIXELS_PER_INCH) \div r2h

\* processedSamples: the radii (tenths of a pixel) and the core material
Processed(s) ==
  LET outerRadius  == 10 * s.radius
      middleRadius == outerRadius - s.outer_thickness_in * PIXELS_PER_INCH
      coreRadius   == middleRadius - s.middle_thickness_in * PIXELS_PER_INCH
  IN [outerRadius  |-> outerRadius,
      middleRadius |-> middleRadius,
      coreRadius   |-> coreRadius,
      coreMat      |-> [s.core_material EXCEPT
                          !.density = EffectiveDensity(s, coreRadius)]]

Dist2(s, worldX, worldY) ==
  (worldX - s.x) * (worldX - s.x) + (worldY - s.y) * (worldY - s.y)

\* variant: the loop runs to the end of the list, the last match standing
LastMatch(ss, worldX, worldY) ==
  LET hits == {i \in 1..Len(ss) :
                 DistLe(Dist2(ss[i], worldX, worldY), 10 * ss[i].radius)}
  IN IF hits = {} THEN 0 ELSE CHOOSE i \in hits : \A j \in hits : i >= j

\* index of the first sample of the list whose outer radius holds the point,
\* 0 when there is none (the for ... break loop)
FirstMatch(ss, worldX, worldY) ==
  LET hits == {i \in 1..Len(ss) :
                 DistLe(Dist2(ss[i], worldX, worldY), Processed(ss[i]).outerRadius)}
  IN IF hits = {} THEN 0 ELSE CHOOSE i \in hits : \A j \in hits : i <= j

ambientC(c) == f2c(c.ambient_temperature)

\* variant: the configured temperature used whatever the fill type
fillTempCAnyFill(c) ==
  IF c.water_temperature # Undefined
    THEN f2c(ValueOf(c.water_temperature))
    ELSE ambientC(c)

fillTempC(c) ==
  IF c.fill_type = "Water" /\ c.water_temperature # Undefined
    THEN f2c(ValueOf(c.water_temperature))
    ELSE ambientC(c)

\* variant: liquid fill is a boundary only when its temperature is configured
FillIsBoundaryIfConfigured(c) ==
  c.fill_type = "Water" /\ c.water_temperature # Undefined

\* isBoundary of a fill cell: if (container.fill_type === 'Water') isBoundary = true
FillIsBoundary(c) == c.fill_type = "Water"

\* the GridCell that initialize() pushes for grid coordinate (x, y)
InitCell(c, ss, canvasWidth, canvasHeight, x, y) ==
  LET worldX == x * DOWNSAMPLE
      worldY == y * DOWNSAMPLE
      i      == FirstMatch(ss, worldX, worldY)
      d2     == Dist2(ss[i], worldX, worldY)
      p      == Processed(ss[i])
  IN IF ~InsideContainer(c, worldX, worldY, canvasWidth, canvasHeight)
       THEN [temp |-> ambientC(c), nextTemp |-> ambientC(c),
             material |-> getMaterials["Air"], isBoundary |-> TRUE]
     ELSE IF i = 0
       THEN [temp |-> fillTempC(c), nextTemp |-> fillTempC(c),
             material |-> c.fill_material,
             isBoundary |-> FillIsBoundary(c)]
     ELSE [temp |-> f2c(ss[i].initial_temperature),
           nextTemp |-> f2c(ss[i].initial_temperature),
           material |-> IF DistLe(d2, p.coreRadius) THEN p.coreMat
                        ELSE IF DistLe(d2, p.middleRadius) THEN ss[i].middle_material
                        ELSE ss[i].outer_material,
           isBoundary |-> FALSE]

\* variant: ownership decided by the sample radii alone
OwnerAnywhere(c, ss, canvasWidth, canvasHeight, x, y) ==
  FirstMatch(ss, x * DOWNSAMPLE, y * DOWNSAMPLE)

\* index of the sample that owns grid coordinate (x, y); 0 for none
Owner(c, ss, canvasWidth, canvasHeight, x, y) ==
  IF InsideContainer(c, x * DOWNSAMPLE, y * DOWNSAMPLE, canvasWidth, canvasHeight)
    THEN FirstMatch(ss, x * DOWNSAMPLE, y * DOWNSAMPLE)
    ELSE 0

\* the cells of a w x h grid in the order the loops visit them (y outer, x inner)
RowMajor(w, h) == [k \in 1..(w * h) |-> [x |-> (k - 1) % w, y |-> (k - 1) \div w]]

\* this.sampleCells after initialize(): one list per id that matched a cell
InitSampleCells(c, ss, canvasWidth, canvasHeight) ==
  LET w == Ceil(canvasWidth, DOWNSAMPLE)
      h == Ceil(canvasHeight, DOWNSAMPLE)
      owned(pos) == Owner(c, ss, canvasWidth, canvasHeight, pos.x, pos.y)
      ids == {ss[owned(RowMajor(w, h)[k])].id :
                k \in {n \in 1..(w * h) : owned(RowMajor(w, h)[n]) # 0}}
      mine(id) == LET test(pos) == owned(pos) # 0 /\ ss[owned(pos)].id = id
                  IN SelectSeq(RowMajor(w, h), test)
  IN [id \in ids |-> mine(id)]

InitGridOf(c, ss, canvasWidth, canvasHeight) ==
  [y \in 0..(Ceil(canvasHeight, DOWNSAMPLE) - 1) |->
     [x \in 0..(Ceil(canvasWidth, DOWNSAMPLE) - 1) |->
        InitCell(c, ss, canvasWidth, canvasHeight, x, y)]]

-----------------------------------------------------------------------------
(* step(): explicit finite differences with a write buffer                 *)

\* alpha = k / (rho * cp), in 1e-9 m^2/s; k / Infinity is 0
Alpha(m) ==
  IF m.density = Infinity THEN 0
  ELSE LET rhoCp == IF m.density >= 100000
                      THEN (m.density \div 1000) * m.specific_heat
                      ELSE (m.density * m.specific_heat) \div 1000
       IN (m.thermal_conductivity * 10000) \div rhoCp

\* change = alpha * d2T * TIME_STEP with d2T = lap / dx2, dx = pixelSizeMm / 1000:
\* alpha[1e-9] * lap * 1e6 / pixelSizeMm^2 * TIME_STEP / 100
ChangeAt(m, lap, pixelSizeMm) ==
  Quot(Quot(Alpha(m) * lap, 1000) * TIME_STEP, pixelSizeMm * pixelSizeMm * 100)

Change(m, lap) == ChangeAt(m, lap, PIXEL_SIZE_MM)

\* top.temp + bottom.temp + left.temp + right.temp - 4 * cell.temp
Laplacian(g, x, y) ==
  g[y - 1][x].temp + g[y + 1][x].temp + g[y][x - 1].temp + g[y][x + 1].temp
    - 4 * g[y][x].temp

\* variant: the loop body without the isBoundary test
UpdateCellNoBoundary(g, x, y) ==
  [g EXCEPT ![y][x].nextTemp =
     g[y][x].temp + Change(g[y][x].material, Laplacian(g, x, y))]

\* variant: the loop body writing the new temperature in place
UpdateCellInPlace(g, x, y) ==
  IF g[y][x].isBoundary THEN g
  ELSE [g EXCEPT ![y][x].nextTemp =
          g[y][x].temp + Change(g[y][x].material, Laplacian(g, x, y)),
                 ![y][x].temp =
          g[y][x].temp + Change(g[y][x].material, Laplacian(g, x, y))]

\* one pass of the loop body for interior cell (x, y): writes nextTemp only
UpdateCell(g, x, y) ==
  IF g[y][x].isBoundary THEN g
  ELSE [g EXCEPT ![y][x].nextTemp =
          g[y][x].temp + Change(g[y][x].material, Laplacian(g, x, y))]

\* variant: loops that run their body once before testing the bound
InteriorAtLeastOnce(w, h) ==
  LET ww == Max(1, w - 2)
      hh == Max(1, h - 2)
  IN [k \in 1..(ww * hh) |->
        [x |-> 1 + ((k - 1) % ww), y |-> 1 + ((k - 1) \div ww)]]

\* the interior cells, y = 1..h-2 outer, x = 1..w-2 inner
Interior(w, h) ==
  IF w < 3 \/ h < 3 THEN <<>>
  ELSE [k \in 1..((w - 2) * (h - 2)) |->
          [x |-> 1 + ((k - 1) % (w - 2)), y |-> 1 + ((k - 1) \div (w - 2))]]

RECURSIVE UpdateLoop(_, _, _)
UpdateLoop(g, cells, k) ==
  IF k > Len(cells) THEN g
  ELSE UpdateLoop(UpdateCell(g, cells[k].x, cells[k].y), cells, k + 1)

\* variant: insulated edges, a perimeter cell taking the new temperature of
\* the interior cell nearest to it
ApplyUpdatesInsulatedEdges(g) ==
  LET h == Cardinality(DOMAIN g)
      inner(n, k) == IF n < 3 THEN k ELSE Max(1, Min(n - 2, k))
  IN [y \in DOMAIN g |->
        [x \in DOMAIN g[y] |->
           [g[y][x] EXCEPT !.temp =
              g[inner(h, y)][inner(Cardinality(DOMAIN g[y]), x)].nextTemp]]]

\* "Apply updates": temp = nextTemp for every cell
ApplyUpdates(g) ==
  [y \in DOMAIN g |-> [x \in DOMAIN g[y] |-> [g[y][x] EXCEPT !.temp = g[y][x].nextTemp]]]

StepGrid(g, w, h) == ApplyUpdates(UpdateLoop(g, Interior(w, h), 1))

\* getGrid(): the grid in Fahrenheit
getGrid(g) == [y \in DOMAIN g |-> [x \in DOMAIN g[y] |-> c2f(g[y][x].temp)]]

-----------------------------------------------------------------------------
(* The Peltier snapshot of GridPhysicsEngine: one grid cell per canvas     *)
(* pixel, layers by radius fraction (in tenths), cells tagged with the     *)
(* owning sample's id, and the thermostat override in step().              *)

NoSampleId == ""

PeltierFirstMatch(ss, worldX, worldY) ==
  LET hits == {i \in 1..Len(ss) : DistLe(Dist2(ss[i], worldX, worldY), 10 * ss[i].radius)}
  IN IF hits = {} THEN 0 ELSE CHOOSE i \in hits : \A j \in hits : i <= j

PeltierInitCell(c, ss, canvasWidth, canvasHeight, x, y) ==
  LET i  == PeltierFirstMatch(ss, x, y)
      d2 == Dist2(ss[i], x, y)
  IN IF ~InsideContainer(c, x, y, canvasWidth, canvasHeight)
       THEN [temp |-> ambientC(c), nextTemp |-> ambientC(c),
             material |-> getMaterials["Air"], isBoundary |-> TRUE,
             sampleId |-> NoSampleId]
     ELSE IF i = 0
       THEN [temp |-> ambientC(c), nextTemp |-> ambientC(c),
             material |-> c.fill_material, isBoundary |-> FALSE,
             sampleId |-> NoSampleId]
     ELSE [temp |-> f2c(ss[i].initial_temperature),
           nextTemp |-> f2c(ss[i].initial_temperature),
           material |-> IF DistLe(d2, ss[i].radius * ss[i].core_radius_fraction)
                          THEN ss[i].core_material
                        ELSE IF DistLe(d2, ss[i].radius * ss[i].middle_radius_fraction)
                          THEN ss[i].middle_material
                        ELSE ss[i].outer_material,
           isBoundary |-> FALSE,
           sampleId |-> ss[i].id]

PeltierInitGridOf(c, ss, canvasWidth, canvasHeight) ==
  [y \in 0..(canvasHeight - 1) |->
     [x \in 0..(canvasWidth - 1) |->
        PeltierInitCell(c, ss, canvasWidth, canvasHeight, x, y)]]

\* this.samples.find(s => s.id === id): its index, 0 when there is none
FindSample(ss, id) ==
  LET hits == {i \in 1..Len(ss) : ss[i].id = id}
  IN IF hits = {} THEN 0 ELSE CHOOSE i \in hits : \A j \in hits : i <= j

\* the cell is held by an active thermostat
Clamped(cell, ss) ==
  /\ cell.sampleId # NoSampleId
  /\ FindSample(ss, cell.sampleId) # 0
  /\ ss[FindSample(ss, cell.sampleId)].peltier_active
  /\ ss[FindSample(ss, cell.sampleId)].target_temperature # Undefined

\* one pass of the Peltier loop body for interior cell (x, y)
PeltierUpdateCell(g, ss, x, y) ==
  IF g[y][x].isBoundary THEN g
  ELSE IF Clamped(g[y][x], ss)
    THEN [g EXCEPT ![y][x].nextTemp =
            f2c(ValueOf(ss[FindSample(ss, g[y][x].sampleId)].target_temperature))]
  ELSE [g EXCEPT ![y][x].nextTemp =
          g[y][x].temp
            + ChangeAt(g[y][x].material, Laplacian(g, x, y), PELTIER_PIXEL_SIZE_MM)]

RECURSIVE PeltierUpdateLoop(_, _, _, _)
PeltierUpdateLoop(g, ss, cells, k) ==
  IF k > Len(cells) THEN g
  ELSE PeltierUpdateLoop(PeltierUpdateCell(g, ss, cells[k].x, cells[k].y), ss, cells, k + 1)

PeltierStepGrid(g, ss, w, h) == ApplyUpdates(PeltierUpdateLoop(g, ss, Interior(w, h), 1))

\* updatedSamples: current_temperature = mean Fahrenheit temperature of the
\* cells tagged with the sample's id
UpdatedSamples(g, ss) ==
  [i \in 1..Len(ss) |->
     LET cells == {pos \in (DOMAIN g) \X (IF 0 \in DOMAIN g THEN DOMAIN g[0] ELSE {}) :
                     g[pos[1]][pos[2]].sampleId # NoSampleId
                       /\ g[pos[1]][pos[2]].sampleId = ss[i].id}
         tempF == [pos \in cells |-> c2f(g[pos[1]][pos[2]].temp)]
     IN IF cells = {} THEN ss[i]
        ELSE [ss[i] EXCEPT
                !.current_temperature = Some(Quot(SumOver(tempF, cells), Cardinality(cells)))]]

-----------------------------------------------------------------------------
(* getSampleTemp()                                                         *)

RECURSIVE SumTemps(_, _, _)
SumTemps(g, cells, k) ==
  IF k > Len(cells) THEN 0
  ELSE g[cells[k].y][cells[k].x].temp + SumTemps(g, cells, k + 1)

InGrid(g, pos) == pos.y \in DOMAIN g /\ pos.x \in DOMAIN g[pos.y]

\* variant: the mean returned without the conversion to Fahrenheit
getSampleTempRaw(g, sc, sampleId) ==
  IF sampleId \notin DOMAIN sc \/ Len(sc[sampleId]) = 0
    THEN [value |-> 0, threw |-> FALSE]
  ELSE [value |-> Quot(SumTemps(g, sc[sampleId], 1), Len(sc[sampleId])),
        threw |-> FALSE]

\* variant: no early return; cells.length of undefined throws
getSampleTempNoGuard(g, sc, sampleId) ==
  IF sampleId \notin DOMAIN sc
    THEN [value |-> 0, threw |-> TRUE]
  ELSE [value |-> c2f(Quot(SumTemps(g, sc[sampleId], 1), Max(1, Len(sc[sampleId])))),
        threw |-> FALSE]

\* [value, threw]: the number returned, or threw = TRUE when a cached
\* coordinate indexes outside the grid (a TypeError in the program)
getSampleTemp(g, sc, sampleId) ==
  IF sampleId \notin DOMAIN sc \/ Len(sc[sampleId]) = 0
    THEN [value |-> 0, threw |-> FALSE]
  ELSE IF \E k \in 1..Len(sc[sampleId]) : ~InGrid(g, sc[sampleId][k])
    THEN [value |-> 0, threw |-> TRUE]
  ELSE [value |-> c2f(Quot(SumTemps(g, sc[sampleId], 1), Len(sc[sampleId]))),
        threw |-> FALSE]

-----------------------------------------------------------------------------
(* InterferenceCalculator.calculateInterference                            *)
(*                                                                         *)
(* gridData is [null, rows]: null = TRUE for a missing grid, else rows is  *)
(* the 2D array of Fahrenheit temperatures.  A score is the exact rational *)
(* [num, den] with den > 0.                                                *)

NullGrid == [null |-> TRUE, rows |-> <<>>]
GridOf(rows) == [null |-> FALSE, rows |-> rows]

Score(n, d) == [num |-> n, den |-> d]

RECURSIVE SqrtSearch(_, _, _)
SqrtSearch(n, lo, hi) ==
  IF lo >= hi THEN lo
  ELSE LET mid == (lo + hi + 1) \div 2
       IN IF mid * mid <= n THEN SqrtSearch(n, mid, hi) ELSE SqrtSearch(n, lo, mid - 1)

\* floor(sqrt(n)) for 0 <= n < 2^31
ISqrt(n) == SqrtSearch(n, 0, 46340)

\* rim radius: s.radius + 1 * PIXELS_PER_INCH
Rim(s) == s.radius + 1 * PIXELS_PER_INCH

CenterDist2(s1, s2) == (s2.x - s1.x) * (s2.x - s1.x) + (s2.y - s1.y) * (s2.y - s1.y)

\* edgeDist <= 0, edgeDist = sqrt(CenterDist2) - rim1 - rim2
EdgeTouching(s1, s2) ==
  \/ Rim(s1) + Rim(s2) >= 0 /\ CenterDist2(s1, s2) <= (Rim(s1) + Rim(s2)) * (Rim(s1) + Rim(s2))
  \/ Rim(s1) + Rim(s2) < 0 /\ FALSE

numSamples == 20

\* gridData[0].length
GridW(rows) == IF 0 \in DOMAIN rows THEN Cardinality(DOMAIN rows[0]) ELSE 0
GridH(rows) == Cardinality(DOMAIN rows)

\* getTempAt for sampling point i of the pair: the cell
\*   gx = floor(x / canvasWidth * gridW), gy = floor(y / canvasHeight * gridH)
\* with x = s1.x + unitX * dist, dist = rim1 + (i / numSamples) * gapDistance,
\* unitX = dx / distance; distance is held in 1/1000 pixel.  A zero canvas
\* dimension makes the index NaN or +-Infinity, which fails the bounds test.
SampleCellAt(s1, s2, gridW, gridH, canvasWidth, canvasHeight, i) ==
  LET dx        == s2.x - s1.x
      dy        == s2.y - s1.y
      distance  == ISqrt(CenterDist2(s1, s2) * 1000000)
      gap       == distance - 1000 * Rim(s2) - 1000 * Rim(s1)
      distN     == numSamples * 1000 * Rim(s1) + i * gap
      xNum      == s1.x * numSamples * distance + dx * distN
      yNum      == s1.y * numSamples * distance + dy * distN
  IN [gx |-> (xNum * gridW) \div (numSamples * distance * canvasWidth),
      gy |-> (yNum * gridH) \div (numSamples * distance * canvasHeight)]

\* variant: an index outside the grid is moved to the nearest cell inside
SampleTempAtNearest(s1, s2, ambientTemp, rows, canvasWidth, canvasHeight, i) ==
  LET gridH == GridH(rows)
      gridW == GridW(rows)
      p     == SampleCellAt(s1, s2, gridW, gridH, canvasWidth, canvasHeight, i)
  IN IF canvasWidth = 0 \/ canvasHeight = 0 \/ gridW = 0 THEN ambientTemp
     ELSE rows[Max(0, Min(gridH - 1, p.gy))][Max(0, Min(gridW - 1, p.gx))]

SampleTempAt(s1, s2, ambientTemp, rows, canvasWidth, canvasHeight, i) ==
  LET gridH == GridH(rows)
      gridW == GridW(rows)
      p     == SampleCellAt(s1, s2, gridW, gridH, canvasWidth, canvasHeight, i)
  IN IF canvasWidth = 0 \/ canvasHeight = 0 THEN ambientTemp
     ELSE IF p.gx >= 0 /\ p.gx < gridW /\ p.gy >= 0 /\ p.gy < gridH
       THEN rows[p.gy][p.gx]
       ELSE ambientTemp

\* the elevations of the numSamples + 1 sampled points
Elevations(s1, s2, c, rows, canvasWidth, canvasHeight) ==
  [i \in 0..numSamples |->
     SampleTempAt(s1, s2, c.ambient_temperature, rows, canvasWidth, canvasHeight, i)
       - c.ambient_temperature]

\* variant: an elevation of exactly the threshold counts
AtOrAboveThreshold(elevation) == 2 * elevation >= 3 * TempScale

\* elevation > threshold, threshold = 1.5 F
AboveThreshold(elevation) == 2 * elevation > 3 * TempScale

\* interferencePercentage = coveragePercent * 0.6 + intensityPercent * 0.4 with
\*   coveragePercent  = samplesAboveThreshold / (numSamples + 1) * 100
\*   intensityPercent = min(100, avgElevation / 10 * 100)
\*   avgElevation     = totalTempElevation / samplesAboveThreshold
\* over the common denominator (numSamples + 1) * n * TempScale, then clamped
\* by Math.min(100, Math.max(0, .)).
\* variant: neither Math.min applied
CombineUnclamped(n, total) ==
  Score(60 * n * n * TempScale + 4 * (numSamples + 1) * total,
        (numSamples + 1) * n * TempScale)

\* variant: coveragePercent = samplesAboveThreshold / numSamples * 100
CombineOverNumSamples(n, total) ==
  LET den == numSamples * n * TempScale
      cov == 60 * n * n * TempScale
      int == Min(40 * numSamples * n * TempScale, 4 * numSamples * total)
  IN Score(Min(100 * den, Max(0, cov + int)), den)

Combine(n, total) ==
  LET den == (numSamples + 1) * n * TempScale
      cov == 60 * n * n * TempScale
      int == Min(40 * (numSamples + 1) * n * TempScale, 4 * (numSamples + 1) * total)
  IN Score(Min(100 * den, Max(0, cov + int)), den)

\* variant: the touching test made before the missing-grid test
calculateInterferenceTouchingFirst(s1, s2, c, elapsedTime, gridData, canvasWidth, canvasHeight) ==
  IF EdgeTouching(s1, s2) THEN Score(100, 1)
  ELSE IF gridData.null \/ GridH(gridData.rows) = 0 THEN Score(0, 1)
  ELSE LET el    == Elevations(s1, s2, c, gridData.rows, canvasWidth, canvasHeight)
           above == {i \in 0..numSamples : AboveThreshold(el[i])}
       IN IF above = {} THEN Score(0, 1)
          ELSE Combine(Cardinality(above), SumOver(el, above))

calculateInterference(s1, s2, c, elapsedTime, gridData, canvasWidth, canvasHeight) ==
  IF gridData.null \/ GridH(gridData.rows) = 0 THEN Score(0, 1)
  ELSE IF EdgeTouching(s1, s2) THEN Score(100, 1)
  ELSE LET el    == Elevations(s1, s2, c, gridData.rows, canvasWidth, canvasHeight)
           above == {i \in 0..numSamples : AboveThreshold(el[i])}
       IN IF above = {} THEN Score(0, 1)
          ELSE Combine(Cardinality(above), SumOver(el, above))

-----------------------------------------------------------------------------
(* InterferenceCalculator.getInterferenceReport                            *)

NotStarted == "Simulation not started. No thermal interference."
NotDetected == "No thermal interference detected."

\* minDist^2 over the pairs i < j at a positive distance; Infinity if none
MinDist2(ss) ==
  LET ds == {CenterDist2(ss[i], ss[j]) : i, j \in 1..Len(ss)} \ {0}
  IN IF ds = {} THEN Infinity ELSE CHOOSE d \in ds : \A e \in ds : d <= e

\* distance <= minDist * 1.5
areNeighbors(ss, s1, s2) ==
  \/ MinDist2(ss) = Infinity
  \/ 4 * CenterDist2(s1, s2) <= 9 * MinDist2(ss)

\* score.toFixed(1), in tenths of a percent
ToFixed1(sc) == (20 * sc.num + sc.den) \div (2 * sc.den)

\* variant: the loops nested the other way round, j outside and i inside
PairsInnerFirst(n) ==
  [k \in 1..(n * n) |-> [i |-> 1 + ((k - 1) % n), j |-> 1 + ((k - 1) \div n)]]

\* the ordered pairs (i, j) in the order of the nested loops
Pairs(n) == [k \in 1..(n * n) |-> [i |-> 1 + ((k - 1) \div n), j |-> 1 + ((k - 1) % n)]]

\* variant: the pair lines returned as they are, without the fallback line
getInterferenceReportNoFallback(ss, c, elapsedTime, gridData, canvasWidth, canvasHeight) ==
  LET sc(p) == calculateInterference(ss[p.i], ss[p.j], c, elapsedTime, gridData,
                                     canvasWidth, canvasHeight)
      reported(p) == /\ p.i # p.j
                     /\ areNeighbors(ss, ss[p.i], ss[p.j])
                     /\ sc(p).num > sc(p).den
      kept == SelectSeq(Pairs(Len(ss)), reported)
  IN [k \in 1..Len(kept) |->
        [a |-> ss[kept[k].i].name, b |-> ss[kept[k].j].name,
         percent |-> ToFixed1(sc(kept[k]))]]

getInterferenceReport(ss, c, elapsedTime, gridData, canvasWidth, canvasHeight) ==
  LET sc(p) == calculateInterference(ss[p.i], ss[p.j], c, elapsedTime, gridData,
                                     canvasWidth, canvasHeight)
      reported(p) == /\ p.i # p.j
                     /\ areNeighbors(ss, ss[p.i], ss[p.j])
                     /\ sc(p).num > sc(p).den
      kept == SelectSeq(Pairs(Len(ss)), reported)
      report == [k \in 1..Len(kept) |->
                   [a |-> ss[kept[k].i].name, b |-> ss[kept[k].j].name,
                    percent |-> ToFixed1(sc(kept[k]))]]
  IN IF Len(report) = 0
       THEN IF elapsedTime = 0 \/ gridData.null
              THEN <<[text |-> NotStarted]>> ELSE <<[text |-> NotDetected]>>
       ELSE report

-----------------------------------------------------------------------------
(* Inputs                                                                  *)

CanvasWidth == 24
CanvasHeight == 20

Ctr(shape, w, h, fill, wt) ==
  [shape |-> shape, width |-> w, height |-> h,
   fill_material |-> getMaterials[fill], fill_type |-> fill,
   ambient_temperature |-> DegF(70), water_temperature |-> wt]

Containers ==
  { Ctr("rectangle", 24, 20, "Phenolic Foam", Undefined),
    Ctr("rectangle", 8, 8, "Phenolic Foam", Undefined),
    Ctr("circle",    24, 20, "Phenolic Foam", Undefined),
    Ctr("rectangle", 24, 20, "Phenolic Foam", Some(DegF(90))),
    Ctr("rectangle", 24, 20, "Water", Undefined),
    Ctr("rectangle", 24, 20, "Water", Some(DegF(50))),
    Ctr("rectangle", 24, 20, "Water", Some(DegF(90))),
    Ctr("circle",    24, 20, "Water", Some(DegF(90))) }

\* createSample / updateSampleSize: radius = diameter * PIXELS_PER_INCH / 2,
\* thicknesses in tenths of an inch, water mass in tenths of a pound
Smp(id, x, y, size, initF, active, targetF) ==
  [id |-> id, name |-> id, x |-> x, y |-> y,
   radius |-> ((IF size = "2x4" THEN 2 ELSE 4) * PIXELS_PER_INCH) \div 2,
   size |-> size,
   outer_material |-> getMaterials["Aluminum"],
   middle_material |-> getMaterials["Plastic (PVC)"],
   core_material |-> getMaterials["Water"],
   outer_thickness_in |-> 1, middle_thickness_in |-> 1,
   water_mass_lbs |-> IF size = "2x4" THEN 8 ELSE 35,
   outer_radius_fraction |-> 10, middle_radius_fraction |-> 9,
   core_radius_fraction |-> 8,
   initial_temperature |-> initF, temperature |-> initF,
   current_temperature |-> Undefined,
   peltier_active |-> active, target_temperature |-> targetF]

SampleLists ==
  { <<>>,
    << Smp("a", 12, 8, "4x8", DegF(110), FALSE, Undefined) >>,
    << Smp("a", 6, 6, "2x4", DegF(110), FALSE, Undefined) >>,
    << Smp("a", 10, 11, "4x8", DegF(110), FALSE, Undefined) >>,
    << Smp("a", 12, 8, "2x4", DegF(110), FALSE, Undefined),
       Smp("b", 28, 8, "2x4", DegF(110), FALSE, Undefined) >>,
    << [Smp("a", 12, 8, "4x8", DegF(110), FALSE, Undefined)
          EXCEPT !.outer_thickness_in = 0] >>,
    << Smp("a", 4, 8, "2x4", DegF(110), FALSE, Undefined),
       Smp("b", 16, 8, "2x4", DegF(110), FALSE, Undefined) >>,
    << Smp("a", 4, 8, "2x4", DegF(110), FALSE, Undefined),
       Smp("b", 12, 8, "2x4", DegF(40), FALSE, Undefined) >>,
    << Smp("a", 4, 8, "2x4", DegF(110), FALSE, Undefined),
       Smp("b", 12, 8, "2x4", DegF(110), FALSE, Undefined),
       Smp("c", 20, 8, "2x4", DegF(110), FALSE, Undefined) >>,
    << Smp("a", 4, 8, "2x4", DegF(110), FALSE, Undefined),
       Smp("b", 8, 8, "2x4", DegF(110), FALSE, Undefined),
       Smp("c", 15, 8, "2x4", DegF(110), FALSE, Undefined) >>,
    << Smp("a", 12, 8, "4x8", DegF(110), FALSE, Undefined),
       Smp("b", 16, 8, "2x4", DegF(40), FALSE, Undefined) >>,
    << Smp("a", 8, 12, "4x8", DegF(70), TRUE, Some(DegF(110))),
       Smp("b", 20, 4, "2x4", DegF(110), FALSE, Undefined) >> }

SampleIds == {"a", "b", "c", "zz"}

NoRet == [op |-> "none"]

\* initialize() evaluated once for every input of the main specification
Initialized ==
  [c \in Containers, ss \in SampleLists |->
     [grid        |-> InitGridOf(c, ss, CanvasWidth, CanvasHeight),
      sampleCells |-> InitSampleCells(c, ss, CanvasWidth, CanvasHeight)]]

\* what initialize(c, ss, canvasWidth, canvasHeight) builds
InitializeResult(c, ss, canvasWidth, canvasHeight) ==
  IF canvasWidth = CanvasWidth /\ canvasHeight = CanvasHeight
       /\ c \in Containers /\ ss \in SampleLists
    THEN Initialized[c, ss]
    ELSE [grid        |-> InitGridOf(c, ss, canvasWidth, canvasHeight),
          sampleCells |-> InitSampleCells(c, ss, canvasWidth, canvasHeight)]

\* Inputs of the Peltier snapshot: a 6 x 5 canvas, one cell per pixel
PeltierCanvas == [w |-> 6, h |-> 5]

PeltierContainers ==
  { Ctr("rectangle", 6, 5, "Phenolic Foam", Undefined),
    Ctr("rectangle", 4, 3, "Phenolic Foam", Undefined),
    Ctr("circle",    5, 5, "Phenolic Foam", Undefined) }

PSmp(id, x, y, radius, initF, active, targetF) ==
  [Smp(id, x, y, "2x4", initF, active, targetF) EXCEPT
     !.radius = radius,
     !.outer_material = getMaterials["Plastic (PVC)"],
     !.middle_radius_fraction = 8, !.core_radius_fraction = 6]

PeltierSampleLists ==
  { <<>>,
    << PSmp("a", 2, 2, 1, DegF(70), TRUE, Some(DegF(110))) >>,
    << PSmp("a", 2, 2, 1, DegF(110), TRUE, Some(DegF(110))) >>,
    << PSmp("a", 2, 2, 1, DegF(110), FALSE, Some(DegF(110))) >>,
    << PSmp("a", 2, 2, 1, DegF(110), TRUE, Undefined) >>,
    << PSmp("a", 1, 2, 1, DegF(110), TRUE, Some(DegF(110))) >>,
    << PSmp("a", 1, 2, 1, DegF(70), TRUE, Some(DegF(110))) >>,
    << PSmp("a", 3, 2, 2, DegF(110), TRUE, Some(DegF(90))) >>,
    << PSmp("a", 2, 2, 1, DegF(70), TRUE, Some(DegF(110))),
       PSmp("b", 4, 2, 1, DegF(110), FALSE, Undefined) >>,
    << PSmp("a", 2, 2, 1, DegF(110), FALSE, Undefined),
       PSmp("b", 3, 2, 1, DegF(40), TRUE, Some(DegF(40))) >> }

\* Inputs of the cell-by-cell specification: 5 x 4 grids
OrderCanvas(e) == IF e = "grid" THEN [w |-> 20, h |-> 16] ELSE [w |-> 5, h |-> 4]

OrderContainers ==
  { Ctr("rectangle", 20, 16, "Phenolic Foam", Undefined),
    Ctr("rectangle", 20, 16, "Water", Some(DegF(50))) }

OrderSampleLists ==
  { << Smp("a", 8, 4, "4x8", DegF(110), FALSE, Undefined) >>,
    << Smp("a", 4, 4, "2x4", DegF(110), FALSE, Undefined),
       Smp("b", 12, 8, "4x8", DegF(40), FALSE, Undefined) >> }

OrderPeltierContainers == { Ctr("rectangle", 5, 4, "Phenolic Foam", Undefined) }

OrderPeltierSampleLists ==
  { << PSmp("a", 2, 2, 1, DegF(70), TRUE, Some(DegF(110))) >>,
    << PSmp("a", 1, 1, 1, DegF(110), FALSE, Undefined),
       PSmp("b", 3, 2, 1, DegF(70), TRUE, Some(DegF(90))) >> }

-----------------------------------------------------------------------------
(* The engine and its callers as a state machine                           *)

InitEngine(e, cv) ==
  /\ grid = <<>>
  /\ width = 0
  /\ height = 0
  /\ time = 0
  /\ sampleCells = <<>>
  /\ engSamples = <<>>
  /\ engine = e
  /\ pc = "idle"
  /\ todo = {}
  /\ container = Ctr("rectangle", cv.w, cv.h, "Phenolic Foam", Undefined)
  /\ samples = <<>>
  /\ app = [mounted |-> FALSE, isRunning |-> FALSE, timeRef |-> 0, elapsedTime |-> 0,
            gridData |-> NullGrid, frameCount |-> 0, simSpeed |-> 1, stepCalls |-> 0]
  /\ canvas = cv
  /\ initGrid = <<>>
  /\ prev = <<>>
  /\ steps = 0
  /\ inits = 0
  /\ ret = NoRet

Init == InitEngine("grid", [w |-> CanvasWidth, h |-> CanvasHeight])

\* Calls are synchronous and do not overlap: an operation is called when no
\* result is pending (ret = NoRet), a read leaves its result in ret, and
\* Return is the caller taking it.
Return ==
  /\ ret # NoRet
  /\ ret' = NoRet
  /\ UNCHANGED <<engineVars, callerVars, historyVars>>

\* variant: the ownership cache is not cleared before it is rebuilt
KeepCells(sc) == sc

\* this.sampleCells.clear()
ClearCells(sc) == <<>>

\* the pushes of one initialize() onto the lists the cache then holds
PushCells(sc, new) ==
  [id \in DOMAIN sc \cup DOMAIN new |->
     (IF id \in DOMAIN sc THEN sc[id] ELSE <<>>) \o
     (IF id \in DOMAIN new THEN new[id] ELSE <<>>)]

\* the body of initialize(c, ss, canvas.w, canvas.h)
EngineInitialize(c, ss) ==
  /\ width' = Ceil(canvas.w, DOWNSAMPLE)
  /\ height' = Ceil(canvas.h, DOWNSAMPLE)
  /\ grid' = InitializeResult(c, ss, canvas.w, canvas.h).grid
  /\ time' = 0
  /\ sampleCells' = PushCells(ClearCells(sampleCells),
                            InitializeResult(c, ss, canvas.w, canvas.h).sampleCells)
  /\ initGrid' = grid'
  /\ prev' = <<>>
  /\ steps' = 0
  /\ inits' = inits + 1
  /\ UNCHANGED <<engSamples, engine, pc, todo>>

\* initialize(container, samples, canvasWidth, canvasHeight), called with the
\* container and the samples the caller then holds
Initialize(c, ss) ==
  /\ engine = "grid" /\ pc = "idle" /\ ret = NoRet
  /\ inits < MaxInits
  /\ EngineInitialize(c, ss)
  /\ container' = c
  /\ samples' = ss
  /\ UNCHANGED <<app, canvas, ret>>

\* the first interior cell, in loop order, at which step() throws a TypeError:
\* the cell itself is missing from the grid, or it diffuses and one of the
\* four neighbours it reads is missing; 0 when the loops run through
StepThrowsAt(g, w, h) ==
  LET cells == Interior(w, h)
      nbrs(p) == {[x |-> p.x, y |-> p.y - 1], [x |-> p.x, y |-> p.y + 1],
                  [x |-> p.x - 1, y |-> p.y], [x |-> p.x + 1, y |-> p.y]}
      bad == {k \in DOMAIN cells :
                \/ ~InGrid(g, cells[k])
                \/ /\ ~g[cells[k].y][cells[k].x].isBoundary
                   /\ \E q \in nbrs(cells[k]) : ~InGrid(g, q)}
  IN IF bad = {} THEN 0 ELSE CHOOSE k \in bad : \A n \in bad : k <= n

\* step()
\* step()
Step ==
  /\ engine = "grid" /\ pc = "idle" /\ ret = NoRet
  /\ steps < MaxSteps
  /\ time' = time + TIME_STEP
  /\ IF StepThrowsAt(grid, width, height) # 0
       THEN /\ grid' = UpdateLoop(grid, SubSeq(Interior(width, height), 1,
                                               StepThrowsAt(grid, width, height) - 1), 1)
            /\ ret' = [op |-> "step", threw |-> TRUE]
            /\ UNCHANGED <<prev, steps>>
       ELSE /\ grid' = StepGrid(grid, width, height)
            /\ prev' = grid
            /\ steps' = steps + 1
            /\ UNCHANGED ret
  /\ UNCHANGED <<width, height, sampleCells, engSamples, engine, pc, todo,
                 callerVars, initGrid, inits>>

\* getSampleTemp(sampleId)
GetSampleTemp(id) ==
  /\ engine = "grid" /\ pc = "idle" /\ ret = NoRet
  /\ ret' = [op |-> "getSampleTemp", id |-> id] @@ getSampleTemp(grid, sampleCells, id)
  /\ UNCHANGED <<engineVars, callerVars, historyVars>>

\* getGrid()
GetGrid ==
  /\ pc = "idle" /\ ret = NoRet
  /\ ret' = [op |-> "getGrid", rows |-> getGrid(grid)]
  /\ UNCHANGED <<engineVars, callerVars, historyVars>>

\* the gridData a caller hands to the scorer: none, an empty array, the
\* engine's grid, or a grid of the same shape holding one arbitrary value
UniformRows(t) == [y \in DOMAIN grid |-> [x \in DOMAIN grid[y] |-> t]]

GridInput(kind) ==
  CASE kind = "null"  -> NullGrid
    [] kind = "empty" -> GridOf(<<>>)
    [] kind = "live"  -> GridOf(getGrid(grid))
    [] kind = "edge"  -> GridOf(UniformRows(container.ambient_temperature + (3 * TempScale) \div 2))
    [] kind = "warm"  -> GridOf(UniformRows(container.ambient_temperature + DegF(2)))
    [] kind = "hot"   -> GridOf(UniformRows(DegF(10000)))
    [] kind = "cold"  -> GridOf(UniformRows(DegF(0 - 1000)))

GridKinds == {"null", "empty", "live", "edge", "warm", "hot", "cold"}

\* the render dimensions handed to the scorer: the canvas, or the defaults 0, 0
CanvasInput(given) == IF given THEN canvas ELSE [w |-> 0, h |-> 0]

ElapsedInputs == {0, TIME_STEP, time}

\* calculateInterference(samples[i], samples[j], container, elapsedTime, gridData, w, h)
CalculateInterference(i, j, kind, given) ==
  /\ pc = "idle" /\ ret = NoRet
  /\ i \in 1..Len(samples) /\ j \in 1..Len(samples)
  /\ ret' = [op |-> "calculateInterference", i |-> i, j |-> j, kind |-> kind,
             given |-> given,
             score |-> calculateInterference(samples[i], samples[j], container, time,
                         GridInput(kind), CanvasInput(given).w, CanvasInput(given).h)]
  /\ UNCHANGED <<engineVars, callerVars, historyVars>>

\* getInterferenceReport(samples, container, elapsedTime, gridData, w, h)
GetInterferenceReport(elapsed, kind, given) ==
  /\ pc = "idle" /\ ret = NoRet
  /\ ret' = [op |-> "getInterferenceReport", elapsedTime |-> elapsed, kind |-> kind,
             given |-> given,
             report |-> getInterferenceReport(samples, container, elapsed,
                          GridInput(kind), CanvasInput(given).w, CanvasInput(given).h)]
  /\ UNCHANGED <<engineVars, callerVars, historyVars>>

Next ==
  \/ Return
  \/ \E c \in Containers, ss \in SampleLists : Initialize(c, ss)
  \/ Step
  \/ \E id \in SampleIds : GetSampleTemp(id)
  \/ GetGrid
  \/ \E i, j \in 1..3, kind \in GridKinds, given \in BOOLEAN :
       CalculateInterference(i, j, kind, given)
  \/ \E elapsed \in ElapsedInputs, kind \in GridKinds, given \in BOOLEAN :
       GetInterferenceReport(elapsed, kind, given)

Spec == Init /\ [][Next]_vars

-----------------------------------------------------------------------------
(* The Peltier snapshot as a state machine                                 *)

InitPeltier == InitEngine("peltier", PeltierCanvas)

\* initialize(container, samples, canvasWidth, canvasHeight), Peltier snapshot
PeltierInitialize(c, ss) ==
  /\ engine = "peltier" /\ pc = "idle" /\ ret = NoRet
  /\ inits < MaxInits
  /\ width' = canvas.w
  /\ height' = canvas.h
  /\ grid' = PeltierInitGridOf(c, ss, canvas.w, canvas.h)
  /\ time' = 0
  /\ engSamples' = ss
  /\ container' = c
  /\ samples' = ss
  /\ initGrid' = grid'
  /\ prev' = <<>>
  /\ steps' = 0
  /\ inits' = inits + 1
  /\ UNCHANGED <<sampleCells, engine, pc, todo, app, canvas, ret>>

\* step(), Peltier snapshot
PeltierStep ==
  /\ engine = "peltier" /\ pc = "idle" /\ ret = NoRet
  /\ steps < MaxSteps
  /\ time' = time + TIME_STEP
  /\ grid' = PeltierStepGrid(grid, engSamples, width, height)
  /\ engSamples' = UpdatedSamples(grid', engSamples)
  /\ prev' = grid
  /\ steps' = steps + 1
  /\ ret' = [op |-> "step"]
  /\ UNCHANGED <<width, height, sampleCells, engine, pc, todo,
                 callerVars, initGrid, inits>>

\* the target temperatures typed into the "Target Temp" field
PeltierTargets == {Some(DegF(90))}

\* the Peltier checkbox of the App: setSamples(samples.map(...)); the list keeps
\* its length, so the initialize effect does not run
PeltierToggle(i) ==
  /\ engine = "peltier" /\ pc = "idle" /\ ret = NoRet
  /\ inits >= 1
  /\ i \in 1..Len(samples)
  /\ samples' = [samples EXCEPT ![i].peltier_active = ~samples[i].peltier_active]
  /\ UNCHANGED <<engineVars, historyVars, container, app, canvas, ret>>

\* the target temperature field of the App, shown while the flag is set
PeltierSetTarget(i, t) ==
  /\ engine = "peltier" /\ pc = "idle" /\ ret = NoRet
  /\ inits >= 1
  /\ i \in 1..Len(samples)
  /\ samples[i].peltier_active
  /\ samples[i].target_temperature # t
  /\ samples' = [samples EXCEPT ![i].target_temperature = t]
  /\ UNCHANGED <<engineVars, historyVars, container, app, canvas, ret>>

NextPeltier ==
  \/ Return
  \/ \E c \in PeltierContainers, ss \in PeltierSampleLists : PeltierInitialize(c, ss)
  \/ PeltierStep
  \/ \E i \in 1..2 : PeltierToggle(i)
  \/ \E i \in 1..2, t \in PeltierTargets : PeltierSetTarget(i, t)

SpecPeltier == InitPeltier /\ [][NextPeltier]_vars

-----------------------------------------------------------------------------
(* step() cell by cell: the update loop visits the interior cells one at a *)
(* time, here in any order, and the apply loop runs when all are visited.  *)

InitOrder ==
  \E e \in {"grid", "peltier"} : InitEngine(e, OrderCanvas(e))

\* step() up to the update loop
BeginStep ==
  /\ pc = "idle" /\ ret = NoRet
  /\ steps < MaxSteps
  /\ time' = time + TIME_STEP
  /\ prev' = grid
  /\ todo' = {Interior(width, height)[k] : k \in 1..Len(Interior(width, height))}
  /\ pc' = "stepping"
  /\ UNCHANGED <<grid, width, height, sampleCells, engSamples, engine,
                 callerVars, initGrid, steps, inits, ret>>

\* one iteration of the update loop
VisitCell(pos) ==
  /\ pc = "stepping"
  /\ pos \in todo
  /\ grid' = IF engine = "grid"
               THEN UpdateCell(grid, pos.x, pos.y)
               ELSE PeltierUpdateCell(grid, engSamples, pos.x, pos.y)
  /\ todo' = todo \ {pos}
  /\ UNCHANGED <<width, height, time, sampleCells, engSamples, engine, pc,
                 callerVars, historyVars, ret>>

\* the apply loop and the return
FinishStep ==
  /\ pc = "stepping"
  /\ todo = {}
  /\ grid' = ApplyUpdates(grid)
  /\ engSamples' = IF engine = "peltier" THEN UpdatedSamples(grid', engSamples)
                   ELSE engSamples
  /\ steps' = steps + 1
  /\ pc' = "idle"
  /\ UNCHANGED <<width, height, time, sampleCells, engine, todo,
                 callerVars, initGrid, prev, inits, ret>>

NextOrder ==
  \/ \E c \in OrderContainers, ss \in OrderSampleLists : Initialize(c, ss)
  \/ \E c \in OrderPeltierContainers, ss \in OrderPeltierSampleLists :
       PeltierInitialize(c, ss)
  \/ BeginStep
  \/ \E pos \in todo : VisitCell(pos)
  \/ FinishStep

SpecOrder == InitOrder /\ [][NextOrder]_vars

-----------------------------------------------------------------------------
(* The App component driving the engine.  A handler runs together with the *)
(* render and the effects it causes.                                       *)

AppContainers ==
  { Ctr("rectangle", 24, 20, "Phenolic Foam", Undefined),
    Ctr("rectangle", 40, 36, "Phenolic Foam", Undefined),
    Ctr("circle",    34, 34, "Phenolic Foam", Undefined) }

LoadLists ==
  { << Smp("a", 4, 8, "2x4", DegF(110), FALSE, Undefined),
       Smp("b", 16, 8, "2x4", DegF(110), FALSE, Undefined) >> }

LayoutCounts == 1..2

DragDeltas == { <<8, 0>> }

\* createSample(i, x, y, materials); the random id is the index's letter
createSample(i, x, y) ==
  [Smp(<<"a", "b", "c">>[i + 1], x, y, "4x8", DegF(110), FALSE, Undefined)
     EXCEPT !.name = <<"Sample 1", "Sample 2", "Sample 3">>[i + 1]]

\* handleAutoLayout: centerMargin = edgeMargin + sampleRadius
centerMargin == 4 * PIXELS_PER_INCH + (4 * PIXELS_PER_INCH) \div 2

\* minSpacing of the layout with r rows
MinSpacing(count, r, availW, availH) ==
  LET c      == Ceil(count, r)
      spaceX == IF c > 1 THEN availW \div (c - 1) ELSE 0
      spaceY == IF r > 1 THEN availH \div (r - 1) ELSE 0
  IN IF count = 1 THEN Infinity
     ELSE IF r = 1 THEN spaceX
     ELSE IF c = 1 THEN spaceY
     ELSE Min(spaceX, spaceY)

\* "Try all factors": the first r with the largest minSpacing above 0
RECURSIVE BestLayout(_, _, _, _, _)
BestLayout(count, availW, availH, r, best) ==
  IF r > count THEN best
  ELSE BestLayout(count, availW, availH, r + 1,
         IF MinSpacing(count, r, availW, availH) > best.spacing
           THEN [rows |-> r, cols |-> Ceil(count, r),
                 spacing |-> MinSpacing(count, r, availW, availH)]
           ELSE best)

\* the samples handleAutoLayout creates; [ok |-> FALSE] when it returns early.
\* On the circle the samples sit at angle (i / count) * 2 pi of radius
\* maxR * 0.8, which for count <= 2 is the x axis: cos = 1, -1 and sin = 0.
AutoLayoutSamples(c, count, cv) ==
  LET cx     == cv.w \div 2
      cy     == cv.h \div 2
      maxR   == c.width \div 2 - centerMargin
      r      == (maxR * 8) \div 10
      availW == c.width - centerMargin * 2
      availH == c.height - centerMargin * 2
      best   == BestLayout(count, availW, availH, 1,
                           [rows |-> 1, cols |-> count, spacing |-> 0])
      cellW  == IF best.cols > 1 THEN availW \div (best.cols - 1) ELSE 0
      cellH  == IF best.rows > 1 THEN availH \div (best.rows - 1) ELSE 0
      startX == cx - availW \div 2
      startY == cy - availH \div 2
      row(i) == i \div best.cols
      col(i) == i % best.cols
      lastX(i) == cx - (((count % best.cols) - 1) * cellW) \div 2 + col(i) * cellW
      rectX(i) == IF row(i) = best.rows - 1 /\ count % best.cols # 0 THEN lastX(i)
                  ELSE IF best.cols = 1 THEN cx
                  ELSE startX + col(i) * cellW
      rectY(i) == IF best.rows = 1 THEN cy ELSE startY + row(i) * cellH
  IN IF count <= 0 THEN [ok |-> FALSE, samples |-> <<>>]
     ELSE IF c.shape = "circle"
       THEN IF maxR <= 0 THEN [ok |-> FALSE, samples |-> <<>>]
            ELSE [ok |-> TRUE,
                  samples |-> [k \in 1..count |->
                     createSample(k - 1, IF k = 1 THEN cx + r ELSE cx - r, cy)]]
     ELSE IF availW <= 0 \/ availH <= 0 THEN [ok |-> FALSE, samples |-> <<>>]
     ELSE [ok |-> TRUE,
           samples |-> [k \in 1..count |-> createSample(k - 1, rectX(k - 1), rectY(k - 1))]]

InitApp == Init

\* the initialize effect, deps [container, samples.length]: it runs after a
\* render in which the container object or the number of samples changed
InitializeEffect(c, ss, containerSet) ==
  IF containerSet \/ Len(ss) # Len(samples)
    THEN inits < MaxInits /\ EngineInitialize(c, ss)
    ELSE UNCHANGED <<engineVars, historyVars>>

\* the first render: the initialize effect runs
Mount ==
  /\ ~app.mounted /\ ret = NoRet
  /\ InitializeEffect(container, samples, TRUE)
  /\ app' = [app EXCEPT !.mounted = TRUE]
  /\ UNCHANGED <<container, samples, canvas, ret>>

\* the play / pause button: setIsRunning(!isRunning); the loop effect starts
\* with frameCount = 0
ToggleRunning ==
  /\ app.mounted /\ ret = NoRet
  /\ app' = [app EXCEPT !.isRunning = ~app.isRunning, !.frameCount = 0]
  /\ UNCHANGED <<engineVars, historyVars, container, samples, canvas, ret>>

\* the speed slider (1x to 2400x): a value on each side of the first threshold
Speeds == {1, 200}

\* the loop count and the time added per iteration (in 1/100 s) of one frame
FrameSteps(simSpeed) ==
  IF simSpeed > 1000 THEN Ceil(simSpeed, 40)
  ELSE IF simSpeed > 100 THEN Ceil(simSpeed, 10)
  ELSE simSpeed

FrameDt(simSpeed) ==
  IF simSpeed > 1000 THEN 200
  ELSE IF simSpeed > 100 THEN 50
  ELSE 5

\* n calls of step() in a row (the comparison makes the grid of one call a
\* value before the next call)
RECURSIVE StepTimes(_, _, _, _)
StepTimes(g, w, h, n) ==
  LET next == StepGrid(g, w, h)
  IN IF n = 0 THEN g
     ELSE IF next = next THEN StepTimes(next, w, h, n - 1) ELSE g

\* setSimSpeed(v); the loop effect restarts when simSpeed changes
SetSimSpeed(v) ==
  /\ app.mounted /\ ret = NoRet
  /\ v # app.simSpeed
  /\ app' = [app EXCEPT !.simSpeed = v, !.frameCount = 0]
  /\ UNCHANGED <<engineVars, historyVars, container, samples, canvas, ret>>

\* one animation frame of the simulation loop; stepCalls counts the step()
\* calls since the last handleReset
Frame ==
  LET n == FrameSteps(app.simSpeed) IN
  /\ app.mounted /\ app.isRunning /\ ret = NoRet
  /\ app.stepCalls < MaxSteps
  /\ time' = time + n * TIME_STEP
  /\ prev' = StepTimes(grid, width, height, n - 1)
  /\ grid' = StepGrid(prev', width, height)
  /\ steps' = steps + n
  /\ app' = [app EXCEPT
               !.timeRef = app.timeRef + n * FrameDt(app.simSpeed),
               !.elapsedTime = app.timeRef + n * FrameDt(app.simSpeed),
               !.stepCalls = app.stepCalls + n,
               !.gridData = IF app.frameCount % 2 = 0 THEN GridOf(getGrid(grid')) ELSE @,
               !.frameCount = app.frameCount + 1]
  /\ samples' = IF (app.frameCount + 1) % 30 = 0
                  THEN [i \in 1..Len(samples) |->
                          [samples[i] EXCEPT !.temperature =
                             getSampleTemp(grid', sampleCells, samples[i].id).value]]
                  ELSE samples
  /\ ret' = [op |-> "frame"]
  /\ UNCHANGED <<width, height, sampleCells, engSamples, engine, pc, todo,
                 container, canvas, initGrid, inits>>

\* handleAutoLayout(count)
AutoLayout(count) ==
  /\ app.mounted /\ ret = NoRet
  /\ IF AutoLayoutSamples(container, count, canvas).ok
       THEN /\ inits < MaxInits
            /\ samples' = AutoLayoutSamples(container, count, canvas).samples
            /\ EngineInitialize(container, samples')
       ELSE UNCHANGED <<engineVars, historyVars, samples>>
  /\ UNCHANGED <<container, app, canvas, ret>>

\* Canvas.handleMouseMove while a sample is dragged:
\* onSampleUpdate({...sample, x: sample.x + dx, y: sample.y + dy})
DragMove(i, d) ==
  /\ app.mounted /\ ret = NoRet
  /\ i \in 1..Len(samples)
  /\ samples[i].x + d[1] \in 0..canvas.w /\ samples[i].y + d[2] \in 0..canvas.h
  /\ samples' = [samples EXCEPT ![i].x = @ + d[1], ![i].y = @ + d[2]]
  /\ InitializeEffect(container, samples', FALSE)
  /\ UNCHANGED <<container, app, canvas, ret>>

\* onContainerUpdate = setContainer; the loop effect restarts as well
EditContainer(c) ==
  /\ app.mounted /\ ret = NoRet
  /\ container' = c
  /\ InitializeEffect(c, samples, TRUE)
  /\ app' = [app EXCEPT !.frameCount = 0]
  /\ UNCHANGED <<samples, canvas, ret>>

\* handleLoad: setContainer(data.container); setSamples(data.samples)
Load(c, ss) ==
  /\ app.mounted /\ ret = NoRet
  /\ container' = c
  /\ samples' = ss
  /\ InitializeEffect(c, ss, TRUE)
  /\ app' = [app EXCEPT !.frameCount = 0]
  /\ UNCHANGED <<canvas, ret>>

\* handleReset, with its setTimeout(initialize(container, []))
Reset ==
  /\ app.mounted /\ ret = NoRet
  /\ inits < MaxInits
  /\ samples' = <<>>
  /\ app' = [app EXCEPT !.isRunning = FALSE, !.timeRef = 0, !.elapsedTime = 0,
                        !.gridData = NullGrid, !.frameCount = 0, !.stepCalls = 0]
  /\ EngineInitialize(container, <<>>)
  /\ UNCHANGED <<container, canvas, ret>>

NextApp ==
  \/ Return
  \/ Mount
  \/ ToggleRunning
  \/ \E v \in Speeds : SetSimSpeed(v)
  \/ Frame
  \/ \E count \in LayoutCounts : AutoLayout(count)
  \/ \E i \in 1..2, d \in DragDeltas : DragMove(i, d)
  \/ \E c \in AppContainers : EditContainer(c)
  \/ \E c \in AppContainers, ss \in LoadLists : Load(c, ss)
  \/ Reset

SpecApp == InitApp /\ [][NextApp]_vars

\* the analysis panel of the App, computed at every render:
\* InterferenceCalculator.getInterferenceReport(samples, container, elapsedTime);
\* gridData, canvasWidth and canvasHeight take their defaults null, 0, 0
interferenceReport ==
  getInterferenceReport(samples, container, app.elapsedTime, NullGrid, 0, 0)

-----------------------------------------------------------------------------
(* calculateInterference in the arithmetic of the JavaScript Number type.  *)
(* The operators above place a sampling point with exact arithmetic; here  *)
(* every /, * and + of the sampling loop and of getTempAt is rounded to an *)
(* IEEE-754 double (53 significant bits, round to nearest, ties to even),  *)
(* for two samples on one row of pixels with integer coordinates: then     *)
(* distance = |dx| and unitX = +-1, unitY = 0 are exact.                   *)
(* A double >= 0 is held exactly, as a natural number of units 2^-60       *)
(* written in Limbs limbs of LimbBits bits, least significant limb first;  *)
(* every double from 2^-7 up to 2^29 is a whole number of such units.      *)

LimbBits == 15
LimbBase == 32768
Limbs == 6
UnitLimbs == 4
MantissaBits == 53

\* the integer n, 0 <= n < LimbBase, as a double
BigOf(n) == [l \in 1..Limbs |-> IF l = UnitLimbs + 1 THEN n ELSE 0]

\* Math.floor
BigFloor(A) == A[UnitLimbs + 1] + LimbBase * A[UnitLimbs + 2]

RECURSIVE MulLimbs(_, _, _, _)
MulLimbs(A, k, l, carry) ==
  IF l > Limbs THEN <<>>
  ELSE LET v == A[l] * k + carry
       IN <<v % LimbBase>> \o MulLimbs(A, k, l + 1, v \div LimbBase)

\* the exact product of A and the integer k, 0 <= k < LimbBase
BigMul(A, k) == MulLimbs(A, k, 1, 0)

RECURSIVE AddLimbs(_, _, _, _)
AddLimbs(A, B, l, carry) ==
  IF l > Limbs THEN <<>>
  ELSE LET v == A[l] + B[l] + carry
       IN <<v % LimbBase>> \o AddLimbs(A, B, l + 1, v \div LimbBase)

\* the exact sum
BigAdd(A, B) == AddLimbs(A, B, 1, 0)

RECURSIVE SubLimbs(_, _, _, _)
SubLimbs(A, B, l, borrow) ==
  IF l > Limbs THEN <<>>
  ELSE LET v == A[l] - B[l] - borrow
       IN <<IF v < 0 THEN v + LimbBase ELSE v>>
            \o SubLimbs(A, B, l + 1, IF v < 0 THEN 1 ELSE 0)

\* the exact difference A - B, A >= B
BigSub(A, B) == SubLimbs(A, B, 1, 0)

RECURSIVE DivLimbs(_, _, _, _)
DivLimbs(A, k, l, rem) ==
  IF l = 0 THEN <<rem>>
  ELSE LET v == rem * LimbBase + A[l]
       IN DivLimbs(A, k, l - 1, v % k) \o <<v \div k>>

\* A divided by the integer k, 0 < k < LimbBase, cut off at 2^-60
BigDiv(A, k) ==
  LET r == DivLimbs(A, k, Limbs, 0) IN [quot |-> Tail(r), inexact |-> Head(r) # 0]

Bit(A, n) == (A[(n \div LimbBits) + 1] \div 2^(n % LimbBits)) % 2

BitLength(A) ==
  LET set == {n \in 0..(LimbBits * Limbs - 1) : Bit(A, n) = 1}
  IN IF set = {} THEN 0 ELSE 1 + CHOOSE n \in set : \A m \in set : m <= n

\* the double nearest to A (to a value just above A when inexact), ties to even
RoundToDouble(A, inexact) ==
  LET d == BitLength(A) - MantissaBits
  IN IF d <= 0 THEN A
     ELSE LET sticky == inexact \/ \E n \in 0..(d - 2) : Bit(A, n) = 1
              up     == Bit(A, d - 1) = 1 /\ (sticky \/ Bit(A, d) = 1)
              kept   == [l \in 1..Limbs |->
                           LET lo == LimbBits * (l - 1)
                           IN IF lo + LimbBits <= d THEN 0
                              ELSE IF lo >= d THEN A[l]
                              ELSE (A[l] \div 2^(d - lo)) * 2^(d - lo)]
              ulp    == [l \in 1..Limbs |->
                           IF l = (d \div LimbBits) + 1 THEN 2^(d % LimbBits) ELSE 0]
          IN IF up THEN BigAdd(kept, ulp) ELSE kept

\* a / k, a * k, a + b, a - b of two Numbers
DoubleDiv(A, k) == RoundToDouble(BigDiv(A, k).quot, BigDiv(A, k).inexact)
DoubleMul(A, k) == RoundToDouble(BigMul(A, k), FALSE)
DoubleAdd(A, B) == RoundToDouble(BigAdd(A, B), FALSE)
DoubleSub(A, B) == RoundToDouble(BigSub(A, B), FALSE)

\* getTempAt(x, y): gx = Math.floor((x / canvasWidth) * gridW), gy likewise
getTempAt(rows, ambientTemp, canvasWidth, canvasHeight, x, y) ==
  LET gridH == GridH(rows)
      gridW == GridW(rows)
      gx    == BigFloor(DoubleMul(DoubleDiv(x, canvasWidth), gridW))
      gy    == BigFloor(DoubleMul(DoubleDiv(y, canvasHeight), gridH))
  IN IF gx >= 0 /\ gx < gridW /\ gy >= 0 /\ gy < gridH
       THEN rows[gy][gx]
       ELSE ambientTemp

\* the sampling loop for s1, s2 on one row: t = i / numSamples,
\* dist = startDist + t * gapDistance, x = s1.x + unitX * dist,
\* y = s1.y + unitY * dist = s1.y
ElevationsOnRow(s1, s2, c, rows, canvasWidth, canvasHeight) ==
  LET distance    == Abs(s2.x - s1.x)
      gapDistance == (distance - Rim(s2)) - Rim(s1)
      t(i)        == DoubleDiv(BigOf(i), numSamples)
      dist(i)     == DoubleAdd(BigOf(Rim(s1)), DoubleMul(t(i), gapDistance))
      x(i)        == IF s2.x > s1.x THEN DoubleAdd(BigOf(s1.x), dist(i))
                                    ELSE DoubleSub(BigOf(s1.x), dist(i))
  IN [i \in 0..numSamples |->
        getTempAt(rows, c.ambient_temperature, canvasWidth, canvasHeight,
                  x(i), BigOf(s1.y))
          - c.ambient_temperature]

\* calculateInterference for s1, s2 on one row, the points placed as above
calculateInterferenceOnRow(s1, s2, c, elapsedTime, gridData, canvasWidth, canvasHeight) ==
  IF gridData.null \/ GridH(gridData.rows) = 0 THEN Score(0, 1)
  ELSE IF EdgeTouching(s1, s2) THEN Score(100, 1)
  ELSE LET el    == ElevationsOnRow(s1, s2, c, gridData.rows, canvasWidth, canvasHeight)
           above == {i \in 0..numSamples : AboveThreshold(el[i])}
       IN IF above = {} THEN Score(0, 1)
          ELSE Combine(Cardinality(above), SumOver(el, above))

\* Inputs: a 128 x 16 canvas, pairs of samples on the row y = 8, and grids of
\* 32 x 4 cells at ambient temperature but for one cell 10 F above it
ScorerCanvas == [w |-> 128, h |-> 16]

ScorerSampleLists ==
  { << Smp("a", 11, 8, "2x4", DegF(110), FALSE, Undefined),
       Smp("b", 119, 8, "2x4", DegF(110), FALSE, Undefined) >>,
    << Smp("a", 9, 8, "4x8", DegF(110), FALSE, Undefined),
       Smp("b", 121, 8, "4x8", DegF(110), FALSE, Undefined) >>,
    << Smp("a", 12, 8, "2x4", DegF(110), FALSE, Undefined),
       Smp("b", 100, 8, "4x8", DegF(110), FALSE, Undefined) >> }

HotCells ==
  {[x |-> x, y |-> 2] : x \in 0..((ScorerCanvas.w \div DOWNSAMPLE) - 1)}

HotCellRows(c, hot) ==
  [y \in 0..((ScorerCanvas.h \div DOWNSAMPLE) - 1) |->
     [x \in 0..((ScorerCanvas.w \div DOWNSAMPLE) - 1) |->
        IF x = hot.x /\ y = hot.y THEN c.ambient_temperature + DegF(10)
                                  ELSE c.ambient_temperature]]

InitScorer ==
  /\ grid = <<>>
  /\ width = 0
  /\ height = 0
  /\ time = 0
  /\ sampleCells = <<>>
  /\ engSamples = <<>>
  /\ engine = "grid"
  /\ pc = "idle"
  /\ todo = {}
  /\ container = Ctr("rectangle", ScorerCanvas.w, ScorerCanvas.h, "Phenolic Foam", Undefined)
  /\ samples \in ScorerSampleLists
  /\ app = [mounted |-> FALSE, isRunning |-> FALSE, timeRef |-> 0, elapsedTime |-> 0,
            gridData |-> NullGrid, frameCount |-> 0, simSpeed |-> 1, stepCalls |-> 0]
  /\ canvas = ScorerCanvas
  /\ initGrid = <<>>
  /\ prev = <<>>
  /\ steps = 0
  /\ inits = 0
  /\ ret = NoRet

\* calculateInterference(samples[i], samples[j], container, elapsedTime, gridData, w, h)
CalculateInterferenceOnRow(i, j, hot) ==
  /\ ret = NoRet
  /\ i \in 1..Len(samples) /\ j \in 1..Len(samples)
  /\ samples[i].y = samples[j].y /\ samples[i].x # samples[j].x
  /\ ret' = [op |-> "calculateInterference", i |-> i, j |-> j, hot |-> hot,
             score |-> calculateInterferenceOnRow(samples[i], samples[j], container,
                         time, GridOf(HotCellRows(container, hot)), canvas.w, canvas.h)]
  /\ UNCHANGED <<engineVars, callerVars, historyVars>>

NextScorer ==
  \/ Return
  \/ \E i \in 1..2, j \in 1..2, hot \in HotCells : CalculateInterferenceOnRow(i, j, hot)

SpecScorer == InitScorer /\ [][NextScorer]_vars

-----------------------------------------------------------------------------
(* Properties                                                              *)

Cells(g) == {pos \in [x : 0..(width - 1), y : 0..(height - 1)] : InGrid(g, pos)}

InteriorCells == {pos \in Cells(grid) :
                    pos.x >= 1 /\ pos.x <= width - 2 /\ pos.y >= 1 /\ pos.y <= height - 2}

\* C1: every cell that initialize() marked isBoundary (outside the container,
\* or fill when the fill is liquid) holds, after any number of step() calls,
\* the temperature initialize() gave it: the configured liquid temperature for
\* liquid fill that has one, ambient otherwise.
BoundaryInvariance ==
  \A pos \in Cells(initGrid) :
    initGrid[pos.y][pos.x].isBoundary =>
      /\ grid[pos.y][pos.x].temp = initGrid[pos.y][pos.x].temp
      /\ grid[pos.y][pos.x].temp =
           IF /\ InsideContainer(container, pos.x * DOWNSAMPLE, pos.y * DOWNSAMPLE,
                                 canvas.w, canvas.h)
              /\ container.fill_type = "Water"
              /\ container.water_temperature # Undefined
             THEN f2c(ValueOf(container.water_temperature))
             ELSE f2c(container.ambient_temperature)

\* a step has run over an interior liquid cell, held at a configured
\* temperature other than ambient, whose neighbours would have changed it
BoundaryHeldAgainstFlow ==
  /\ steps >= 1
  /\ container.fill_type = "Water"
  /\ container.water_temperature # Undefined
  /\ ValueOf(container.water_temperature) # container.ambient_temperature
  /\ \E pos \in InteriorCells :
       /\ initGrid[pos.y][pos.x].isBoundary
       /\ Change(prev[pos.y][pos.x].material, Laplacian(prev, pos.x, pos.y)) # 0

\* C2: whenever the rims of two samples touch or overlap (edgeDist <= 0),
\* calculateInterference returns exactly 100, whatever grid it is handed, a
\* missing or an empty one included.
TouchingIsMaximum ==
  (/\ ret.op = "calculateInterference"
   /\ ret.i # ret.j
   /\ EdgeTouching(samples[ret.i], samples[ret.j]))
    => ret.score.num = 100 * ret.score.den

\* C3: calculateInterference returns a number in [0, 100] for every pair,
\* container, grid (missing, empty, or holding arbitrary temperatures) and
\* render dimensions.
ScoreBounds ==
  ret.op = "calculateInterference" =>
    /\ ret.score.den > 0
    /\ 0 <= ret.score.num
    /\ ret.score.num <= 100 * ret.score.den

\* a pair with a gap scored on a grid far hotter than the intensity cap
ScoreCapReached ==
  /\ ret.op = "calculateInterference"
  /\ ret.kind = "hot" /\ ret.given
  /\ inits >= 1
  /\ ~EdgeTouching(samples[ret.i], samples[ret.j])
  /\ ret.score.num = 100 * ret.score.den

\* C4: once step() has run, every cell owned by a sample whose thermostat is
\* active with target T holds T in the internal unit, wherever the sample lies
\* and whatever its initial temperature.
PeltierClampHolds ==
  steps >= 1 =>
    \A pos \in Cells(grid) :
      Clamped(grid[pos.y][pos.x], engSamples) =>
        grid[pos.y][pos.x].temp =
          f2c(ValueOf(engSamples[FindSample(engSamples, grid[pos.y][pos.x].sampleId)]
                        .target_temperature))

\* the grid is the one initialize() built, read with the render dimensions
FreshLiveGrid ==
  /\ inits >= 1 /\ steps = 0
  /\ ret.kind = "live" /\ ret.given

\* C5 as stated: on a fresh grid every pair with a gap scores 0, for every
\* container configuration.
FreshGridScoreZero ==
  (/\ ret.op = "calculateInterference"
   /\ FreshLiveGrid
   /\ ~EdgeTouching(samples[ret.i], samples[ret.j]))
    => ret.score.num = 0

\* more than 1.5 F above ambient
Hot(tempF) == 2 * (tempF - container.ambient_temperature) > 3 * TempScale

HotFill ==
  /\ container.fill_type = "Water"
  /\ container.water_temperature # Undefined
  /\ Hot(ValueOf(container.water_temperature))

\* a point sampled between the rims of samples i and j falls in a cell owned
\* by a sample initialised hot
HotCellSampled(i, j) ==
  \E k \in 0..numSamples :
    LET p == SampleCellAt(samples[i], samples[j], width, height, canvas.w, canvas.h, k)
        o == Owner(container, samples, canvas.w, canvas.h, p.gx, p.gy)
    IN /\ p.gx >= 0 /\ p.gx < width /\ p.gy >= 0 /\ p.gy < height
       /\ o # 0
       /\ Hot(samples[o].initial_temperature)

ColdGap(i, j) ==
  /\ i # j
  /\ ~EdgeTouching(samples[i], samples[j])
  /\ ~HotFill
  /\ ~HotCellSampled(i, j)

\* C5: on a grid taken straight after initialize(), a pair whose rims leave a
\* gap scores 0 and gets no report line, provided the fill is not a liquid
\* configured more than 1.5 F above ambient and no point sampled between the
\* rims falls in a cell of a sample initialised more than 1.5 F above ambient.
FreshGridScoreZeroInColdGap ==
  /\ (/\ ret.op = "calculateInterference"
      /\ FreshLiveGrid
      /\ ret.i # ret.j
      /\ ColdGap(ret.i, ret.j))
       => ret.score.num = 0
  /\ (/\ ret.op = "getInterferenceReport"
      /\ FreshLiveGrid)
       => \A i, j \in 1..Len(samples) :
            (i # j /\ ColdGap(i, j)) =>
              ~\E k \in 1..Len(ret.report) :
                 /\ "a" \in DOMAIN ret.report[k]
                 /\ ret.report[k].a = samples[i].name
                 /\ ret.report[k].b = samples[j].name

\* two hot samples with a gap, in a container that has a configured fill
\* temperature, scored on the fresh grid
FreshColdGapScored ==
  /\ ret.op = "calculateInterference"
  /\ FreshLiveGrid
  /\ ret.i # ret.j
  /\ ColdGap(ret.i, ret.j)
  /\ container.water_temperature # Undefined
  /\ Hot(samples[ret.i].initial_temperature)
  /\ Hot(samples[ret.j].initial_temperature)
  /\ samples[ret.i].id \in DOMAIN sampleCells
  /\ samples[ret.j].id \in DOMAIN sampleCells

OwnedTemps(id) == {grid[sampleCells[id][k].y][sampleCells[id][k].x].temp :
                     k \in 1..Len(sampleCells[id])}

\* C6: for a sample that owns at least one cell, getSampleTemp(id) converted
\* back to the internal unit lies between the least and the greatest current
\* temperature of the cells in its ownership list.
AggregationConsistency ==
  (/\ ret.op = "getSampleTemp"
   /\ ret.id \in DOMAIN sampleCells
   /\ Len(sampleCells[ret.id]) > 0)
    => /\ ~ret.threw
       /\ \E lo, hi \in OwnedTemps(ret.id) :
            /\ \A t \in OwnedTemps(ret.id) : lo <= t /\ t <= hi
            /\ lo <= f2c(ret.value) /\ f2c(ret.value) <= hi

\* the temperature of a sample whose cells have drifted apart is read
MeanOfUnequalCells ==
  /\ ret.op = "getSampleTemp"
  /\ steps >= 1
  /\ ret.id \in DOMAIN sampleCells
  /\ Cardinality(OwnedTemps(ret.id)) >= 2
  /\ \E t \in OwnedTemps(ret.id) : t < f2c(ret.value)
  /\ \E t \in OwnedTemps(ret.id) : t > f2c(ret.value)

\* the temperature step() owes cell pos, from the grid g0 the step began with
NewTemp(g0, pos) ==
  IF \/ pos.x < 1 \/ pos.x > width - 2 \/ pos.y < 1 \/ pos.y > height - 2
     \/ g0[pos.y][pos.x].isBoundary
    THEN g0[pos.y][pos.x].temp
  ELSE IF engine = "peltier" /\ Clamped(g0[pos.y][pos.x], engSamples)
    THEN f2c(ValueOf(engSamples[FindSample(engSamples, g0[pos.y][pos.x].sampleId)]
                       .target_temperature))
  ELSE g0[pos.y][pos.x].temp
         + ChangeAt(g0[pos.y][pos.x].material, Laplacian(g0, pos.x, pos.y),
                    IF engine = "peltier" THEN PELTIER_PIXEL_SIZE_MM ELSE PIXEL_SIZE_MM)

\* C7: while the update loop runs, every cell still shows the temperature it
\* had when the step began, and when step() returns every cell holds the
\* value computed from those temperatures alone (its own and its four
\* neighbours'), in whatever order the cells were visited; a clamped neighbour
\* counts with its previous value.
DoubleBuffering ==
  /\ pc = "stepping" =>
       \A pos \in Cells(grid) : grid[pos.y][pos.x].temp = prev[pos.y][pos.x].temp
  /\ (pc = "idle" /\ steps >= 1) =>
       \A pos \in Cells(grid) : grid[pos.y][pos.x].temp = NewTemp(prev, pos)

\* a step has returned in which a free cell changed next to a cell that the
\* thermostat moved in the same step
SteppedNextToClamp ==
  /\ pc = "idle" /\ steps >= 1 /\ engine = "peltier"
  /\ \E pos, nb \in InteriorCells :
       /\ Abs(pos.x - nb.x) + Abs(pos.y - nb.y) = 1
       /\ ~Clamped(prev[pos.y][pos.x], engSamples)
       /\ grid[pos.y][pos.x].temp # prev[pos.y][pos.x].temp
       /\ Clamped(prev[nb.y][nb.x], engSamples)
       /\ grid[nb.y][nb.x].temp # prev[nb.y][nb.x].temp

IsPairLine(line) == "a" \in DOMAIN line

\* C8: getInterferenceReport never returns an empty list; without a pair line
\* it returns one line, "Simulation not started..." exactly when elapsedTime
\* is 0 or no grid is supplied and "No thermal interference detected."
\* otherwise; one sample, no step yet and the elapsed time of the engine give
\* the "not started" line.
ReportFallback ==
  ret.op = "getInterferenceReport" =>
    /\ Len(ret.report) >= 1
    /\ \/ \A k \in 1..Len(ret.report) : IsPairLine(ret.report[k])
       \/ /\ Len(ret.report) = 1
          /\ ret.report[1] =
               [text |-> IF ret.elapsedTime = 0 \/ ret.kind = "null"
                           THEN NotStarted ELSE NotDetected]
    /\ (Len(samples) = 1 /\ inits >= 1 /\ steps = 0 /\ ret.elapsedTime = time)
         => ret.report = <<[text |-> NotStarted]>>

\* a running simulation with several samples reports that nothing is detected
NothingDetectedReported ==
  /\ ret.op = "getInterferenceReport"
  /\ Len(samples) >= 2
  /\ steps >= 1
  /\ ret.elapsedTime = time
  /\ ret.kind = "live" /\ ret.given
  /\ ret.report = <<[text |-> NotDetected]>>

\* C9: when a frame of the driver's loop has stepped the engine, the
\* ownership cache is the one initialize() builds from the container and the
\* sample positions the driver then holds.
CacheMatchesSamples ==
  ret.op = "frame" =>
    sampleCells = InitSampleCells(container, samples, canvas.w, canvas.h)

\* C10: getSampleTemp(id) returns 0 and throws nothing whenever the id has no
\* ownership list or an empty one, in every engine state.
SentinelForUnownedId ==
  (/\ ret.op = "getSampleTemp"
   /\ (ret.id \notin DOMAIN sampleCells \/ Len(sampleCells[ret.id]) = 0))
    => ret.value = 0 /\ ~ret.threw

\* after a step, the temperature of a sample of the layout that owns no cell
\* is read
UnownedSampleRead ==
  /\ ret.op = "getSampleTemp"
  /\ steps >= 1
  /\ \E i \in 1..Len(samples) : samples[i].id = ret.id
  /\ ret.id \notin DOMAIN sampleCells
  /\ ret.value = 0

\* C11: on an engine that was never initialized, step(), getGrid() and
\* getSampleTemp() in any order throw nothing, touch no cell and return only
\* the sentinels (the empty grid, 0); and the first initialize() after them
\* leaves the grid, the ownership cache and the time it leaves on a fresh
\* engine.
UseBeforeInitialize ==
  /\ inits = 0 =>
       /\ grid = <<>> /\ width = 0 /\ height = 0
       /\ DOMAIN sampleCells = {}
       /\ ret.op # "step"
       /\ ret.op = "getGrid" => ret.rows = <<>>
       /\ ret.op = "getSampleTemp" => (ret.value = 0 /\ ~ret.threw)
  /\ (inits = 1 /\ steps = 0) =>
       /\ grid = InitGridOf(container, samples, canvas.w, canvas.h)
       /\ sampleCells = InitSampleCells(container, samples, canvas.w, canvas.h)
       /\ time = 0

\* a sample's temperature is read on an engine that has stepped but was never
\* initialized
ReadAfterStepBeforeInitialize ==
  /\ inits = 0
  /\ steps >= 1 /\ time = steps * TIME_STEP
  /\ ret.op = "getSampleTemp"
  /\ ret.value = 0

\* C12: the grid, the ownership cache and the time that initialize() leaves
\* are a function of its arguments alone: whatever configuration, steps and
\* cache preceded the call, they are the ones a fresh engine gets from the
\* same arguments (so a second call with the same arguments changes nothing).
FullRebuild ==
  (inits >= 1 /\ steps = 0) =>
    /\ width = Ceil(canvas.w, DOWNSAMPLE) /\ height = Ceil(canvas.h, DOWNSAMPLE)
    /\ grid = InitGridOf(container, samples, canvas.w, canvas.h)
    /\ sampleCells = InitSampleCells(container, samples, canvas.w, canvas.h)
    /\ \A id \in DOMAIN sampleCells :
         \A k, n \in 1..Len(sampleCells[id]) :
           sampleCells[id][k] = sampleCells[id][n] => k = n
    /\ time = 0

\* the engine has just been initialized for the third time, with samples that
\* own cells
Reinitialized ==
  /\ inits = MaxInits /\ steps = 0 /\ time = 0
  /\ DOMAIN sampleCells # {}

\* the temperature getSampleTemp() reports for the only sample on grid g
MeanOf(g) == getSampleTemp(g, sampleCells, samples[1].id).value

\* C13: with a single unclamped sample hotter than ambient, in a container
\* whose fill starts at ambient, the temperature getSampleTemp() reports for
\* the sample after a step is not above the one before the step and not
\* below ambient.
CoolingMonotone ==
  (/\ inits >= 1 /\ steps >= 1
   /\ Len(samples) = 1
   /\ ~samples[1].peltier_active
   /\ samples[1].initial_temperature > container.ambient_temperature
   /\ fillTempC(container) = ambientC(container)
   /\ samples[1].id \in DOMAIN sampleCells)
    => /\ MeanOf(grid) <= MeanOf(prev)
       /\ MeanOf(grid) >= container.ambient_temperature

\* C14: every step() adds 0.05 s to the engine's time, and the elapsed time
\* the driver reports is 0.05 s times the number of step() calls made since
\* the last reset, at every speed multiplier.
FixedTimeIncrement ==
  /\ time = TIME_STEP * steps
  /\ app.elapsedTime = TIME_STEP * app.stepCalls

\* the world coordinate of a grid cell lies inside the container
InContainer(pos) ==
  InsideContainer(container, pos.x * DOWNSAMPLE, pos.y * DOWNSAMPLE, canvas.w, canvas.h)

\* the cell lies within the outer radius of sample i of the layout
InSample(pos, i) ==
  Dist2(samples[i], pos.x * DOWNSAMPLE, pos.y * DOWNSAMPLE)
    <= samples[i].radius * samples[i].radius

\* the cells inside the container and outside every sample
FillCells ==
  {pos \in Cells(initGrid) :
     InContainer(pos) /\ \A i \in 1..Len(samples) : ~InSample(pos, i)}

\* what the claims on fill cells share: the fill material, the fill
\* temperature, and diffusion for the cells that are not boundary cells
FillCellState(pos) ==
  /\ initGrid[pos.y][pos.x].material = container.fill_material
  /\ initGrid[pos.y][pos.x].temp =
       IF container.fill_type = "Water" /\ container.water_temperature # Undefined
         THEN f2c(ValueOf(container.water_temperature))
         ELSE f2c(container.ambient_temperature)
  /\ (steps >= 1 /\ pos \in InteriorCells /\ ~initGrid[pos.y][pos.x].isBoundary) =>
       grid[pos.y][pos.x].temp =
         prev[pos.y][pos.x].temp +
           Change(container.fill_material, Laplacian(prev, pos.x, pos.y))

\* C15 as stated: a cell inside the container and outside every sample gets
\* the fill material and the fill temperature, is a boundary cell if and only
\* if the fill is a liquid with a configured temperature, and diffuses
\* otherwise.
FillBoundaryIffConfigured ==
  inits >= 1 =>
    \A pos \in FillCells :
      /\ FillCellState(pos)
      /\ initGrid[pos.y][pos.x].isBoundary <=>
           (container.fill_type = "Water" /\ container.water_temperature # Undefined)

\* C15, amended: a cell inside the container and outside every sample gets
\* the fill material and the fill temperature (the configured one for liquid
\* fill that has one, ambient otherwise), is a boundary cell if and only if
\* the fill is the liquid, whether or not a temperature is configured for it,
\* and diffuses otherwise.
FillBoundaryIffLiquid ==
  inits >= 1 =>
    \A pos \in FillCells :
      /\ FillCellState(pos)
      /\ initGrid[pos.y][pos.x].isBoundary <=> (container.fill_type = "Water")

\* a step has run over an interior cell of liquid fill with no configured
\* temperature that sits at ambient next to a hotter sample cell
LiquidFillHeldAtAmbient ==
  /\ steps >= 1
  /\ container.fill_type = "Water" /\ container.water_temperature = Undefined
  /\ \E pos \in FillCells \cap InteriorCells :
       /\ initGrid[pos.y][pos.x].isBoundary
       /\ grid[pos.y][pos.x].temp = f2c(container.ambient_temperature)
       /\ Laplacian(prev, pos.x, pos.y) > 0

\* the cells inside the container and within the outer radius of a sample
SampleCellSet ==
  {pos \in Cells(initGrid) :
     InContainer(pos) /\ \E i \in 1..Len(samples) : InSample(pos, i)}

\* the first sample of the layout whose outer radius holds the cell
FirstSample(pos) ==
  CHOOSE i \in 1..Len(samples) :
    InSample(pos, i) /\ \A j \in 1..(i - 1) : ~InSample(pos, j)

\* the layer of sample i that holds the cell: thresholds in tenths of a pixel,
\* core inside middle inside outer
LayerOf(pos, i) ==
  LET d2  == 100 * Dist2(samples[i], pos.x * DOWNSAMPLE, pos.y * DOWNSAMPLE)
      mid == 10 * samples[i].radius - samples[i].outer_thickness_in * PIXELS_PER_INCH
      cor == mid - samples[i].middle_thickness_in * PIXELS_PER_INCH
  IN IF cor >= 0 /\ d2 <= cor * cor THEN "core"
     ELSE IF mid >= 0 /\ d2 <= mid * mid THEN "middle"
     ELSE "outer"

Recorded(pos, id) ==
  id \in DOMAIN sampleCells /\ \E k \in 1..Len(sampleCells[id]) : sampleCells[id][k] = pos

\* C16: right after initialize(), a cell inside the container and within a
\* sample's outer radius holds that sample's initial temperature and the
\* material of the layer its distance falls in (core, else middle, else
\* outer), is not a boundary cell even when the fill is the liquid, and is
\* recorded in the sample's ownership list.
SampleCellsClassified ==
  (inits >= 1 /\ steps = 0) =>
    \A pos \in SampleCellSet :
      LET i    == FirstSample(pos)
          cell == grid[pos.y][pos.x]
      IN /\ cell.temp = f2c(samples[i].initial_temperature)
         /\ cell.material =
              CASE LayerOf(pos, i) = "core"   -> Processed(samples[i]).coreMat
                [] LayerOf(pos, i) = "middle" -> samples[i].middle_material
                [] LayerOf(pos, i) = "outer"  -> samples[i].outer_material
         /\ ~cell.isBoundary
         /\ Recorded(pos, samples[i].id)

\* under liquid fill, a layout has put cells in the core and in the middle
\* layer of a sample
LayersUnderLiquidFill ==
  /\ inits >= 1 /\ steps = 0
  /\ container.fill_type = "Water"
  /\ \E pos \in SampleCellSet : LayerOf(pos, FirstSample(pos)) = "core"
  /\ \E pos \in SampleCellSet :
       /\ LayerOf(pos, FirstSample(pos)) = "middle"
       /\ grid[pos.y][pos.x].material.name = "Plastic (PVC)"
       /\ ~grid[pos.y][pos.x].isBoundary

\* a layout has put a cell at exactly the outer radius of a sample
OuterLayerCell ==
  /\ inits >= 1 /\ steps = 0
  /\ \E pos \in SampleCellSet :
       /\ LayerOf(pos, FirstSample(pos)) = "outer"
       /\ grid[pos.y][pos.x].material.name = "Aluminum"

\* C17: right after initialize(), a cell outside the container is Air at
\* ambient with the boundary flag set, and it is in no ownership list, also
\* when it lies within the outer radius of a sample.
OutsideContainerWins ==
  (inits >= 1 /\ steps = 0) =>
    \A pos \in Cells(grid) :
      ~InContainer(pos) =>
        /\ grid[pos.y][pos.x].material = getMaterials["Air"]
        /\ grid[pos.y][pos.x].temp = f2c(container.ambient_temperature)
        /\ grid[pos.y][pos.x].isBoundary
        /\ \A id \in DOMAIN sampleCells : ~Recorded(pos, id)

\* a layout has a sample whose disc holds a cell outside the container and
\* a cell inside it
SampleAcrossContainerEdge ==
  /\ inits >= 1 /\ steps = 0
  /\ \E i \in 1..Len(samples) :
       /\ \E pos \in Cells(grid) :
            /\ ~InContainer(pos) /\ InSample(pos, i)
            /\ grid[pos.y][pos.x].material.name = "Air"
            /\ samples[i].initial_temperature # container.ambient_temperature
       /\ \E pos \in Cells(grid) :
            InContainer(pos) /\ InSample(pos, i) /\ Recorded(pos, samples[i].id)

\* C18: a cell within the outer radius of several samples goes to the first
\* of them in list order, and to that one alone: the ownership lists are
\* pairwise disjoint and hold no coordinate twice.
FirstMatchWins ==
  (inits >= 1 /\ steps = 0) =>
    /\ \A pos \in SampleCellSet :
         /\ grid[pos.y][pos.x].temp = f2c(samples[FirstSample(pos)].initial_temperature)
         /\ \A id \in DOMAIN sampleCells :
              Recorded(pos, id) <=> id = samples[FirstSample(pos)].id
    /\ \A id1, id2 \in DOMAIN sampleCells :
         \A k \in 1..Len(sampleCells[id1]), n \in 1..Len(sampleCells[id2]) :
           sampleCells[id1][k] = sampleCells[id2][n] => (id1 = id2 /\ k = n)

\* a layout has a cell within the outer radius of two samples with different
\* initial temperatures
CellInTwoSamples ==
  /\ inits >= 1 /\ steps = 0
  /\ \E pos \in SampleCellSet :
       \E i, j \in 1..Len(samples) :
         /\ i < j /\ InSample(pos, i) /\ InSample(pos, j)
         /\ samples[i].initial_temperature # samples[j].initial_temperature
         /\ Recorded(pos, samples[i].id)

\* the cells of row 0, row height-1, column 0 and column width-1
PerimeterCells == Cells(initGrid) \ InteriorCells

\* C19: in both engines, at every point of every step, a perimeter cell holds
\* the temperature initialize() gave it, whatever its boundary flag, its
\* material and the sample that owns it.
PerimeterNeverUpdated ==
  \A pos \in PerimeterCells :
    grid[pos.y][pos.x].temp = initGrid[pos.y][pos.x].temp

\* a step has completed with a perimeter cell that is not a boundary cell
\* next to an interior cell at another temperature
PerimeterCellNextToFlow ==
  /\ steps >= 1 /\ pc = "idle"
  /\ \E pos \in PerimeterCells, q \in InteriorCells :
       /\ Abs(pos.x - q.x) + Abs(pos.y - q.y) = 1
       /\ ~initGrid[pos.y][pos.x].isBoundary
       /\ prev[q.y][q.x].temp # prev[pos.y][pos.x].temp
       /\ grid[q.y][q.x].temp # prev[q.y][q.x].temp

\* a scored pair whose rims do not touch, on a grid that has rows
ScoredApart ==
  /\ ret.op = "calculateInterference"
  /\ ret.kind \notin {"null", "empty"}
  /\ width > 0
  /\ CenterDist2(samples[ret.i], samples[ret.j])
       > (Rim(samples[ret.i]) + Rim(samples[ret.j])) * (Rim(samples[ret.i]) + Rim(samples[ret.j]))

\* the temperature the scorer reads at point i of the scored pair
PointTemp(i) ==
  SampleTempAt(samples[ret.i], samples[ret.j], container.ambient_temperature,
               GridInput(ret.kind).rows, CanvasInput(ret.given).w,
               CanvasInput(ret.given).h, i)

\* the points the scorer reads for the scored pair
PointsRead ==
  DOMAIN Elevations(samples[ret.i], samples[ret.j], container,
                    GridInput(ret.kind).rows, CanvasInput(ret.given).w,
                    CanvasInput(ret.given).h)

\* the points read that are more than 1.5 F above ambient
PointsAbove ==
  {i \in PointsRead : 2 * (PointTemp(i) - container.ambient_temperature) > 3 * TempScale}

\* for a pair side by side on a row (s1 left of s2), point i of N + 1 lies at
\* x = s1.x + rim1 + i * gap / N, i = 0 on the rim edge of s1 and i = N on
\* the rim edge of s2
EvenlySpaced(N) ==
  LET s1  == samples[ret.i]
      s2  == samples[ret.j]
      gap == (s2.x - Rim(s2)) - (s1.x + Rim(s1))
  IN (s1.y = s2.y /\ s1.x < s2.x /\ ret.given) =>
       \A i \in PointsRead :
         SampleCellAt(s1, s2, width, height, canvas.w, canvas.h, i).gx =
           ((N * (s1.x + Rim(s1)) + i * gap) * width) \div (N * canvas.w)

\* score = 0.6 * (100 * above / points) + 0.4 * min(100, 10 * mean elevation),
\* and 0 when no point is above the threshold
ScoreWithCoverageOver(points) ==
  LET n     == Cardinality(PointsAbove)
      total == SumOver([i \in PointsRead |-> PointTemp(i) - container.ambient_temperature],
                       PointsAbove)
      rhs   == 60 * n * n * TempScale + Min(40 * points * n * TempScale, 4 * points * total)
  IN IF n = 0 THEN ret.score = Score(0, 1)
     ELSE ret.score.num * points = (ret.score.den \div (n * TempScale)) * rhs

\* C20 as stated: the scorer reads exactly 20 evenly spaced points between
\* the two rim edges, and coveragePercent is 100 times the number of points
\* above the threshold over 20.
CoverageOverTwentyPoints ==
  ScoredApart =>
    /\ Cardinality(PointsRead) = 20
    /\ ScoreWithCoverageOver(20)

\* C20, amended: the scorer reads exactly 21 evenly spaced points, i = 0..20
\* at fractions i / 20 of the segment between the two rim edges, both ends
\* included, and coveragePercent is 100 times the number of points above the
\* threshold over 21.
CoverageOverTwentyOnePoints ==
  ScoredApart =>
    /\ PointsRead = 0..20
    /\ EvenlySpaced(20)
    /\ ScoreWithCoverageOver(21)

\* a pair has been scored on the live grid with some of its points, not all,
\* above the threshold
PartialCoverageScored ==
  /\ ScoredApart
  /\ ret.kind = "live" /\ ret.given
  /\ samples[ret.i].y = samples[ret.j].y /\ samples[ret.i].x < samples[ret.j].x
  /\ Cardinality(PointsAbove) \in 1..19
  /\ ret.score.num > 0

\* C21: for a scored pair whose rims do not touch, on a grid with rows, the
\* score is 0 when no point read is strictly more than 1.5 F above ambient;
\* otherwise it is 0.6 * coveragePercent + 0.4 * intensityPercent within
\* [0, 100], with coveragePercent the share of the points read that are above
\* the threshold and intensityPercent = min(100, 100 * mean elevation of
\* those points / 10).
ScoreFormula ==
  ScoredApart =>
    LET n      == Cardinality(PointsAbove)
        points == Cardinality(PointsRead)
        total  == SumOver([i \in PointsRead |->
                             PointTemp(i) - container.ambient_temperature], PointsAbove)
        \* the two terms over the denominator points * n * TempScale
        coverage  == 60 * n * n * TempScale
        intensity == 4 * points * Min(10 * n * TempScale, total)
        unit      == ret.score.den \div (n * TempScale)
    IN IF n = 0 THEN ret.score.num = 0
       ELSE /\ ret.score.den = unit * n * TempScale
            /\ ret.score.num * points = unit * (coverage + intensity)
            /\ ret.score.num >= 0 /\ ret.score.num <= 100 * ret.score.den

\* a pair has been scored on a grid 2 F above ambient everywhere: every point
\* counts and the intensity term is below its cap (score 60 + 8)
WarmGridScored ==
  /\ ScoredApart
  /\ ret.kind = "warm" /\ ret.given
  /\ PointsAbove = PointsRead
  /\ ret.score.num = 68 * ret.score.den

\* a pair has been scored on a grid exactly 1.5 F above ambient everywhere
ThresholdGridScored ==
  /\ ScoredApart
  /\ ret.kind = "edge" /\ ret.given
  /\ \A i \in PointsRead : 2 * (PointTemp(i) - container.ambient_temperature) = 3 * TempScale
  /\ ret.score.num = 0

\* the pair lines of the report returned: none when it is a fallback line
PairLines == IF IsPairLine(ret.report[1]) THEN ret.report ELSE <<>>

\* the position in the list of the sample with the given name
IndexOf(name) == CHOOSE i \in 1..Len(samples) : samples[i].name = name

\* the score the report computes for the ordered pair (i, j)
ReportScore(i, j) ==
  calculateInterference(samples[i], samples[j], container, ret.elapsedTime,
                        GridInput(ret.kind), CanvasInput(ret.given).w,
                        CanvasInput(ret.given).h)

\* the ordered pairs the report considers and scores strictly above 1.0
ReportedPairs ==
  {p \in (1..Len(samples)) \X (1..Len(samples)) :
     /\ p[1] # p[2]
     /\ areNeighbors(samples, samples[p[1]], samples[p[2]])
     /\ ReportScore(p[1], p[2]).num > ReportScore(p[1], p[2]).den}

\* C22: the report holds exactly one line for each ordered pair (i, j),
\* i # j, that it considers and scores strictly above 1.0, the lines are in
\* increasing (i, j) order, and a pair scored 1.0 or less has no line.
ReportLines ==
  ret.op = "getInterferenceReport" =>
    /\ Len(PairLines) = Cardinality(ReportedPairs)
    /\ \A k \in 1..Len(PairLines) :
         /\ <<IndexOf(PairLines[k].a), IndexOf(PairLines[k].b)>> \in ReportedPairs
         /\ PairLines[k].percent =
              ToFixed1(ReportScore(IndexOf(PairLines[k].a), IndexOf(PairLines[k].b)))
    /\ \A k, n \in 1..Len(PairLines) :
         k < n =>
           \/ IndexOf(PairLines[k].a) < IndexOf(PairLines[n].a)
           \/ /\ IndexOf(PairLines[k].a) = IndexOf(PairLines[n].a)
              /\ IndexOf(PairLines[k].b) < IndexOf(PairLines[n].b)

\* a report on three samples holds the lines of its four touching ordered
\* pairs and none for the two outer samples, which it does not consider
FourLinesReported ==
  /\ ret.op = "getInterferenceReport"
  /\ Len(samples) = 3
  /\ Len(PairLines) = 4
  /\ PairLines[1].a = samples[1].name /\ PairLines[1].b = samples[2].name
  /\ PairLines[4].a = samples[3].name /\ PairLines[4].b = samples[2].name
  /\ ~areNeighbors(samples, samples[1], samples[3])

\* point i of the scored pair maps to a cell of the grid
PointInGrid(i) ==
  /\ CanvasInput(ret.given).w # 0 /\ CanvasInput(ret.given).h # 0
  /\ LET p == SampleCellAt(samples[ret.i], samples[ret.j], width, height,
                           CanvasInput(ret.given).w, CanvasInput(ret.given).h, i)
     IN p.gx >= 0 /\ p.gx < width /\ p.gy >= 0 /\ p.gy < height

\* C23: a point of a scored pair whose cell index lies outside the grid, as
\* every point does when the render dimensions are 0, is read as the
\* container's ambient temperature: on a grid far hotter than ambient
\* everywhere the score counts the points inside the grid and no other, and
\* it is 0 when no point is inside.
OutOfBoundsReadsAmbient ==
  ScoredApart =>
    /\ \A i \in 0..numSamples :
         ~PointInGrid(i) => PointTemp(i) = container.ambient_temperature
    /\ ret.kind = "hot" =>
         LET inside == Cardinality({i \in 0..numSamples : PointInGrid(i)})
         IN IF inside = 0 THEN ret.score.num = 0
            ELSE 21 * ret.score.num = ret.score.den * (60 * inside + 840)

\* a pair has been scored on the hot grid with the render dimensions given
\* and its last point on the far edge of the canvas, outside the grid
PointPastGridEdge ==
  /\ ScoredApart
  /\ ret.kind = "hot" /\ ret.given
  /\ PointInGrid(0) /\ ~PointInGrid(numSamples)
  /\ ret.score.num > 0 /\ ret.score.num < 100 * ret.score.den

\* a pair has been scored on the hot grid without render dimensions
ScoredWithoutDimensions ==
  /\ ScoredApart
  /\ ret.kind = "hot" /\ ~ret.given
  /\ ret.score.num = 0

\* C24: calculateInterference handed a missing grid (null) or a grid without
\* rows returns the score 0, for every pair of samples, touching or not.
MissingGridScoresZero ==
  (ret.op = "calculateInterference" /\ ret.kind \in {"null", "empty"}) =>
    ret.score = Score(0, 1)

\* after a step, a pair whose rims touch has been scored with a grid without
\* rows
TouchingPairScoredOnEmptyGrid ==
  /\ ret.op = "calculateInterference"
  /\ ret.kind = "empty"
  /\ steps >= 1
  /\ ret.i # ret.j
  /\ EdgeTouching(samples[ret.i], samples[ret.j])
  /\ ret.score.num = 0

\* C25: for every sample of the list initialize() was handed, the radii it
\* computes are strictly nested, core < middle < outer, and the outer one is
\* no more than the declared radius.
LayerRadiiNested ==
  inits >= 1 =>
    \A i \in 1..Len(samples) :
      /\ Processed(samples[i]).coreRadius < Processed(samples[i]).middleRadius
      /\ Processed(samples[i]).middleRadius < Processed(samples[i]).outerRadius
      /\ Processed(samples[i]).outerRadius <= 10 * samples[i].radius

\* C26: at the reference time step and cell size, alpha * dt / dx^2 <= 0.25
\* for the material of every cell that is not a boundary cell, whatever the
\* layout: sample layers and fill.
ReferenceConfigurationStable ==
  \A pos \in Cells(grid) :
    ~grid[pos.y][pos.x].isBoundary =>
      4 * Alpha(grid[pos.y][pos.x].material) * TIME_STEP
        <= 1000 * 100 * PIXEL_SIZE_MM * PIXEL_SIZE_MM

\* C27: a step() of the Peltier engine treats every interior cell owned by a
\* sample according to the flag and the target the driver's sample list holds
\* when the step runs: the target if the flag is set and a target given,
\* diffusion otherwise.
ClampFollowsEdits ==
  (engine = "peltier" /\ ret.op = "step") =>
    \A pos \in InteriorCells :
      (~grid[pos.y][pos.x].isBoundary /\ grid[pos.y][pos.x].sampleId # NoSampleId) =>
        grid[pos.y][pos.x].temp =
          IF Clamped(grid[pos.y][pos.x], samples)
            THEN f2c(ValueOf(samples[FindSample(samples, grid[pos.y][pos.x].sampleId)]
                               .target_temperature))
            ELSE prev[pos.y][pos.x].temp
                   + ChangeAt(prev[pos.y][pos.x].material, Laplacian(prev, pos.x, pos.y),
                              PELTIER_PIXEL_SIZE_MM)

\* C28: once the driver has run ticks (elapsed time > 0 and step() has produced
\* a grid) the report of the analysis panel is the report computed from the
\* engine's current grid and the render dimensions, and it is not the
\* "Simulation not started" line.
PanelScoresLiveGrid ==
  (app.mounted /\ app.elapsedTime > 0 /\ steps > 0) =>
    /\ interferenceReport =
         getInterferenceReport(samples, container, app.elapsedTime,
                               GridOf(getGrid(grid)), canvas.w, canvas.h)
    /\ interferenceReport # <<[text |-> NotStarted]>>

\* C29: for every list of samples and every grid with rows, each ordered pair
\* of distinct samples whose rims touch or overlap has a line in the report of
\* getInterferenceReport, whatever the other samples of the list are.
TouchingPairsReported ==
  (ret.op = "getInterferenceReport" /\ ret.kind \notin {"null", "empty"}) =>
    \A i, j \in 1..Len(samples) :
      (i # j /\ EdgeTouching(samples[i], samples[j])) =>
        \E k \in 1..Len(ret.report) :
          /\ IsPairLine(ret.report[k])
          /\ ret.report[k].a = samples[i].name
          /\ ret.report[k].b = samples[j].name

\* C30: calculateInterference(A, B, ...) equals calculateInterference(B, A, ...)
\* for every pair of samples and every grid: the score returned for a pair is
\* the score of the same call with the two samples exchanged.
ScoreSymmetry ==
  ret.op = "calculateInterference" =>
    ret.score = calculateInterferenceOnRow(samples[ret.j], samples[ret.i], container,
                  time, GridOf(HotCellRows(container, ret.hot)), canvas.w, canvas.h)

====
